---- MODULE Spec2Model ----
(***************************************************************************)
(* Model of the AIMO solving pipeline: the modular arithmetic library      *)
(* (src/src/utils), the six domain solvers (src/src/solvers) and the       *)
(* dispatcher AIMOSolver (src/src/main.py).                                *)
(*                                                                         *)
(* Outcomes of Python calls are records [tag, v, fl]: tag "val" carries a   *)
(* number v, tag "none" is Python's None, tag "raise" is an exception      *)
(* leaving the call; fl tells a float from an int.  A float that reaches   *)
(* the solvers' results is carried by its integer part int(x), which is    *)
(* all the normalization reads of it.  Where the fractional part matters   *)
(* (the normalization functions themselves) reals are rationals q / RDen.  *)
(*                                                                         *)
(* The initial state is the state after construction: one instance of      *)
(* each solver and one AIMOSolver exist, with their handler tables bound   *)
(* by name.  A table entry whose method the class does not define raises   *)
(* AttributeError where control reaches it.                                *)
(***************************************************************************)
EXTENDS Integers, Sequences, FiniteSets, TLC

VARIABLES call, solved, tried, stats, cache, last, predicted, parsed, built

vars == <<call, solved, tried, stats, cache, last, predicted, parsed, built>>

-----------------------------------------------------------------------------
(* Bounds of the model *)

MaxFibN == 40
MaxFactN == 25
Over == 2
MaxCombN == 9
RDen == 2
MaxAbsQ == 2100

(* Program constants *)

Modulus == 1000

-----------------------------------------------------------------------------
(* Outcomes *)

Val(v) == [tag |-> "val", v |-> v, fl |-> FALSE]
FloatVal(v) == [tag |-> "val", v |-> v, fl |-> TRUE]
None == [tag |-> "none", v |-> 0, fl |-> FALSE]
Raise == [tag |-> "raise", v |-> 0, fl |-> FALSE]
IsVal(o) == o.tag = "val"

Min(a, b) == IF a < b THEN a ELSE b
Max(a, b) == IF a > b THEN a ELSE b

(* Python int(x) of the rational q / d, d > 0: truncation toward zero. *)
PyInt(q, d) == IF q >= 0 THEN q \div d ELSE -((-q) \div d)

(* floor of the rational q / d, d > 0. *)
Floor(q, d) == q \div d

-----------------------------------------------------------------------------
(* utils/__init__.py and solvers/base_solver.py: normalization *)

mod_1000_unreduced(q, d) == PyInt(q, d)

mod_1000(q, d) ==
    LET result == PyInt(q, d) % 1000
    IN  IF result >= 0 THEN result ELSE result + 1000

ensure_valid_answer(q, d) ==
    LET answer == PyInt(q, d) % 1000
    IN  IF answer >= 0 THEN answer ELSE answer + 1000

-----------------------------------------------------------------------------
(* utils/math_helpers.py *)

(* k iterations of  a, b = b, (a + b) % m  from the pair st = <<a, b>>.  The
   iterations run in order, the first half before the second; the test
   half = half only makes TLC evaluate the running pair before it goes on. *)
RECURSIVE FibLoop(_, _, _)
FibLoop(k, st, m) ==
    IF k <= 0 THEN st
    ELSE IF k = 1 THEN <<st[2], (st[1] + st[2]) % m>>
    ELSE LET half == FibLoop(k \div 2, st, m)
         IN  IF half = half THEN FibLoop(k - (k \div 2), half, m) ELSE half

(* fibonacci_mod with the loop one iteration short: range(2, n). *)
fibonacci_mod_short(n, m) ==
    IF n <= 1 THEN n
    ELSE FibLoop(n - 2, <<0, 1>>, m)[2]

fibonacci_mod(n, m) ==
    IF n <= 1 THEN n
    ELSE FibLoop((n + 1) - 2, <<0, 1>>, m)[2]

(* for i in range(lo, hi): result = (result * i) % m *)
RECURSIVE ProdLoop(_, _, _, _)
ProdLoop(lo, hi, result, m) ==
    IF lo >= hi THEN result
    ELSE IF hi - lo = 1 THEN (result * lo) % m
    ELSE LET mid == lo + ((hi - lo) \div 2)
             left == ProdLoop(lo, mid, result, m)
         IN  IF left = left THEN ProdLoop(mid, hi, left, m) ELSE left

(* factorial_mod with the last factor dropped: range(1, min(n, m + 1)). *)
factorial_mod_short(n, m) == ProdLoop(1, Min(n, m + 1), 1, m)

factorial_mod(n, m) == ProdLoop(1, Min(n + 1, m + 1), 1, m)

RECURSIVE extended_gcd(_, _)
extended_gcd(a, b) ==
    IF a = 0 THEN <<b, 0, 1>>
    ELSE LET r == extended_gcd(b % a, a)
         IN  <<r[1], r[3] - (b \div a) * r[2], r[2]>>

(* mod_inverse that returns the coefficient as extended_gcd gave it *)
mod_inverse_unnormalized(a, m) ==
    LET r == extended_gcd(a, m)
    IN  IF r[1] # 1 THEN None ELSE Val(r[2])

mod_inverse(a, m) ==
    LET r == extended_gcd(a, m)
    IN  IF r[1] # 1 THEN None ELSE Val(((r[2] % m) + m) % m)

(* the loop of binomial_mod from index i with running result; k is the
   reduced k. *)
RECURSIVE BinomLoop(_, _, _, _, _)
BinomLoop(i, k, n, result, m) ==
    IF i >= k THEN result
    ELSE LET r1 == (result * (n - i)) % m
             inv == mod_inverse(i + 1, m)
         IN  IF inv = None THEN 0
             ELSE BinomLoop(i + 1, k, n, (r1 * inv.v) % m, m)

binomial_mod(n, k, m) ==
    IF k > n THEN 0
    ELSE IF k = 0 \/ k = n THEN 1
    ELSE BinomLoop(0, Min(k, n - k), n, 1, m)

-----------------------------------------------------------------------------
(* solvers/sequence_solver.py, pattern_solver.py, combinatorics_solver.py:
   numeric helpers *)

generate_fibonacci(n) ==
    IF n <= 1 THEN n
    ELSE FibLoop((n + 1) - 2, <<0, 1>>, 1000)[2]

pattern_factorial_mod_1000(n) == ProdLoop(1, Min(n + 1, 1000), 1, 1000)

comb_factorial_mod_1000(n) == ProdLoop(1, Min(n + 1, 1001), 1, 1000)


(* pow(a, -1, m): the inverse of a modulo m, ValueError when a is not
   invertible. *)
PowInv(a, m) ==
    IF \E x \in 0..(m - 1) : (a * x) % m = 1
    THEN Val(CHOOSE x \in 0..(m - 1) : (a * x) % m = 1)
    ELSE Raise

permutation(n, r) ==
    IF r > n THEN 0 ELSE ProdLoop(n - r + 1, n + 1, 1, 1000)

RECURSIVE CombLoop(_, _, _, _)
CombLoop(i, r, n, result) ==
    IF i >= r THEN Val(result)
    ELSE LET r1 == (result * (n - i)) % 1000
             inv == PowInv(i + 1, 1000)
         IN  IF inv = Raise THEN Raise
             ELSE CombLoop(i + 1, r, n, (r1 * inv.v) % 1000)

combination_unguarded(n, r) == CombLoop(0, Min(r, n - r), n, 1)

combination(n, r) ==
    IF r > n THEN Val(0)
    ELSE CombLoop(0, Min(r, n - r), n, 1)

-----------------------------------------------------------------------------
(* Python integer arithmetic *)

Abs(a) == IF a < 0 THEN -a ELSE a

(* a % b and a // b of Python for b # 0: the remainder has the sign of b. *)
PyMod(a, b) == IF b > 0 THEN a % b ELSE -((-a) % (-b))
PyFloorDiv(a, b) == IF b > 0 THEN a \div b ELSE (-a) \div (-b)

(* int(a / b) for integers a, b with b # 0. *)
PyIntDiv(a, b) == IF b > 0 THEN PyInt(a, b) ELSE PyInt(-a, -b)

(* math.gcd *)
RECURSIVE MathGcd(_, _)
MathGcd(a, b) == IF b = 0 THEN Abs(a) ELSE MathGcd(b, Abs(a) % Abs(b))

(* sympy.lcm on integers *)
SympyLcm(a, b) == IF a = 0 \/ b = 0 THEN 0 ELSE Abs(a * b) \div MathGcd(a, b)

(* pow(b, e, 1000) for e >= 0 *)
RECURSIVE PowMod(_, _)
PowMod(b, e) ==
    IF e = 0 THEN 1
    ELSE LET h == PowMod(b, e \div 2)
         IN  IF e % 2 = 0 THEN (h * h) % 1000 ELSE (((h * h) % 1000) * b) % 1000

IsPrime(n) == n >= 2 /\ \A q \in 2..(n - 1) : q * q > n \/ n % q # 0

(* sympy.primefactors: the primes that divide n; none for 0. *)
primefactors(n) ==
    IF n = 0 THEN {}
    ELSE {q \in 2..Abs(n) : Abs(n) % q = 0 /\ IsPrime(q)}

RECURSIVE SeqSum(_)
SeqSum(s) == IF s = <<>> THEN 0 ELSE s[1] + SeqSum(Tail(s))

RECURSIVE SeqProd(_)
SeqProd(s) == IF s = <<>> THEN 1 ELSE s[1] * SeqProd(Tail(s))

RECURSIVE SeqMax(_)
SeqMax(s) == IF Len(s) = 1 THEN s[1] ELSE Max(s[1], SeqMax(Tail(s)))

RECURSIVE SeqMin(_)
SeqMin(s) == IF Len(s) = 1 THEN s[1] ELSE Min(s[1], SeqMin(Tail(s)))

(* sorted(s) *)
RECURSIVE Sorted(_)
Sorted(s) ==
    IF s = <<>> THEN <<>>
    ELSE LET lo == SeqMin(s)
             i == CHOOSE j \in 1..Len(s) : s[j] = lo
         IN  <<lo>> \o Sorted(SubSeq(s, 1, i - 1) \o SubSeq(s, i + 1, Len(s)))

-----------------------------------------------------------------------------
(* Problem texts.  A text is None or a string; a string is a sequence of
   tokens separated by single blanks.  A token is
     a word                       [k = "word",  w]
     a decimal integer literal    [k = "num",   n]      "-7" for n = -7
     a factorial                  [k = "fact",  n]      "n!"
     a fraction                   [k = "frac",  n, d]   "\frac{n}{d}"
     an indexed term              [k = "idx",   w, n]   "a_n" or "F_n"
     a vertex label               [k = "label", pts]    "ABC"
     a length                     [k = "len",   pts, n] "AB = n"
     an angle                     [k = "ang",   pts, n] "\angle ABC = n"
   and m tells that the token stands in math mode, between "$" and "$". *)

Tok(k, w, n, d, pts, m) ==
    [k |-> k, w |-> w, n |-> n, d |-> d, pts |-> pts, m |-> m]
WordTok(w) == Tok("word", w, 0, 0, <<>>, FALSE)
MathWordTok(w) == Tok("word", w, 0, 0, <<>>, TRUE)
NumTok(n) == Tok("num", "", n, 0, <<>>, FALSE)
MathNumTok(n) == Tok("num", "", n, 0, <<>>, TRUE)
FactTok(n) == Tok("fact", "", n, 0, <<>>, FALSE)
MathFactTok(n) == Tok("fact", "", n, 0, <<>>, TRUE)
FracTok(n, d) == Tok("frac", "", n, d, <<>>, FALSE)
IdxTok(w, n) == Tok("idx", w, n, 0, <<>>, FALSE)
LabelTok(pts) == Tok("label", "", 0, 0, pts, FALSE)
LenTok(pts, n) == Tok("len", "", n, 0, pts, FALSE)
AngTok(pts, n) == Tok("ang", "", n, 0, pts, FALSE)

NullText == [null |-> TRUE, toks |-> <<>>]
Text(toks) == [null |-> FALSE, toks |-> toks]

(* str.lower() of a word *)
Lower(w) == IF w = "Triangle" THEN "triangle" ELSE w

(* The keywords of the source (the arguments of its "in" tests and the
   alternatives of its regular expressions) that occur inside a lower-case
   word of the vocabulary. *)
KeywordsIn(w) ==
    CASE w = "triangle" -> {"triangle", "angle"}
      [] w = "modulo" -> {"modulo", "mod"}
      [] w = "a_n=" -> {"a_n=", "a_n"}
      [] OTHER -> {w}

TokKeywords(tok) ==
    CASE tok.k = "word" -> KeywordsIn(Lower(tok.w))
      [] tok.k = "ang" -> {"angle"}
      [] OTHER -> {}

(* kw in text.lower() *)
Has(toks, kw) == \E i \in 1..Len(toks) : kw \in TokKeywords(toks[i])

HasAny(toks, kws) == \E kw \in kws : Has(toks, kw)

(* The token begins with a digit: "\s+(\d+)" matches after a blank. *)
StartsWithDigits(tok) ==
    \/ tok.k = "num" /\ tok.n >= 0 /\ ~tok.m
    \/ tok.k = "fact" /\ ~tok.m

(* re.findall(r'-?\d*\.?\d+') inside one token *)
TokNumbers(tok) ==
    CASE tok.k \in {"num", "fact", "idx", "len", "ang"} -> <<tok.n>>
      [] tok.k = "frac" -> <<tok.n, tok.d>>
      [] OTHER -> <<>>

RECURSIVE RegularNumbers(_)
RegularNumbers(toks) ==
    IF toks = <<>> THEN <<>>
    ELSE TokNumbers(Head(toks)) \o RegularNumbers(Tail(toks))

(* float(n) / float(d) of every \frac{n}{d}; the vocabulary holds fractions
   whose quotient is an integer or whose denominator is 0. *)
RECURSIVE FractionValues(_)
FractionValues(toks) ==
    IF toks = <<>> THEN <<>>
    ELSE (IF Head(toks).k = "frac"
          THEN <<Head(toks).n \div Head(toks).d>> ELSE <<>>)
         \o FractionValues(Tail(toks))

extract_numbers(toks) ==
    IF \E i \in 1..Len(toks) : toks[i].k = "frac" /\ toks[i].d = 0
    THEN Raise
    ELSE [tag |-> "val", v |-> RegularNumbers(toks) \o FractionValues(toks)]

(* BaseSolver._identify_problem_type *)
base_identify_problem_type(toks) ==
    IF HasAny(toks, {"triangle", "angle", "circle", "square", "rectangle"})
    THEN "geometry"
    ELSE IF HasAny(toks, {"solve", "equation", "polynomial", "factor"})
    THEN "algebra"
    ELSE IF HasAny(toks, {"prime", "factor", "modulo", "divisor"})
    THEN "number_theory"
    ELSE IF HasAny(toks, {"permutation", "combination", "ways"})
    THEN "combinatorics"
    ELSE IF HasAny(toks, {"sequence", "series", "fibonacci", "arithmetic"})
    THEN "sequence"
    ELSE "unknown"

(* BaseSolver.preprocess: the MathProblem of a text, or the exception it
   re-raises (None has no replace(); a zero denominator divides by zero). *)
preprocess(text) ==
    IF text.null THEN [tag |-> "raise"]
    ELSE LET numbers == extract_numbers(text.toks)
         IN  IF numbers.tag = "raise" THEN [tag |-> "raise"]
             ELSE [tag |-> "val",
                   cleaned_text |-> text.toks,
                   expressions |-> {i \in 1..Len(text.toks) : text.toks[i].m},
                   numbers |-> numbers.v,
                   problem_type |-> base_identify_problem_type(text.toks)]

-----------------------------------------------------------------------------
(* Results of solve(): the returned outcome, the path that produced it
   ("handler", "heuristic", "sentinel" when the heuristic has no number to
   work on, "except" when solve's own except clause returned) and the
   entries the call added to the lru caches. *)

Result(out, path, used) == [out |-> out, path |-> path, used |-> used]

(* the one element of a one-element set *)
The(S) == CHOOSE x \in S : TRUE

(* An exception caught by a handler's own "except: return None". *)
Caught(o) == IF o.tag = "raise" THEN None ELSE o

(* Calling a method the class does not define: AttributeError. *)
Undefined == Raise

-----------------------------------------------------------------------------
(* solvers/pattern_solver.py *)

PatternTypes == <<"modulo", "factorial", "sequence", "divisibility", "geometry">>

(* priorities under which a modulo clause comes before a factorial *)
PriorityModuloFirst(pt) ==
    CASE pt = "modulo" -> 3
      [] pt = "factorial" -> 2
      [] pt = "sequence" -> 2
      [] pt = "divisibility" -> 1
      [] pt = "geometry" -> 3

Priority(pt) ==
    CASE pt = "modulo" -> 1
      [] pt = "factorial" -> 2
      [] pt = "sequence" -> 2
      [] pt = "divisibility" -> 1
      [] pt = "geometry" -> 3

(* type_indicators.get(pattern_type, []) *)
PatternTypeIndicators(pt) ==
    CASE pt = "sequence" -> {"sequence", "series", "fibonacci", "arithmetic",
                             "geometric", "term", "recursive"}
      [] pt = "geometry" -> {"triangle", "circle", "angle", "perpendicular",
                             "parallel", "distance", "area", "volume"}
      [] OTHER -> {}

(* The word ends with "modulo" or "mod", so that "\s+(\d+)" can follow. *)
EndsWithMod(w) == w \in {"modulo", "mod"}

(* "modulo\s+(\d+)|mod\s+(\d+)" matches at token i *)
ModuloMatchAt(toks, i) ==
    /\ toks[i].k = "word"
    /\ EndsWithMod(Lower(toks[i].w))
    /\ i < Len(toks)
    /\ StartsWithDigits(toks[i + 1])

(* math_patterns[pt]['pattern'] matches inside token i (re.IGNORECASE) *)
PatternMatchAt(toks, pt, i) ==
    CASE pt = "modulo" -> ModuloMatchAt(toks, i)
      [] pt = "factorial" -> toks[i].k = "fact"
      [] pt = "sequence" ->
            toks[i].k = "word"
            /\ KeywordsIn(Lower(toks[i].w)) \cap {"a_n", "f_n"} # {}
      [] pt = "divisibility" ->
            toks[i].k = "word"
            /\ KeywordsIn(Lower(toks[i].w))
                 \cap {"divisible", "multiple", "factor"} # {}
      [] pt = "geometry" ->
            TokKeywords(toks[i])
              \cap {"triangle", "circle", "angle", "perpendicular"} # {}

(* _extract_pattern_values: the number captured by the match, if any *)
PatternValue(toks, pt, i) ==
    CASE pt = "modulo" -> toks[i + 1].n
      [] pt = "factorial" -> toks[i].n
      [] OTHER -> 0

Pow10Above(a) ==
    IF a < 10 THEN 10 ELSE IF a < 100 THEN 100
    ELSE IF a < 1000 THEN 1000 ELSE IF a < 10000 THEN 10000 ELSE 100000

(* the alternatives of math_patterns[pt]['pattern'] that are plain words *)
PatternAlternatives(pt) ==
    CASE pt = "sequence" -> {"a_n", "f_n"}
      [] pt = "divisibility" -> {"divisible", "multiple", "factor"}
      [] pt = "geometry" -> {"triangle", "circle", "angle", "perpendicular"}
      [] OTHER -> {}

(* match.group() of a match inside a word: the leftmost alternative *)
MatchedKeyword(tok, pt) ==
    LET ks == TokKeywords(tok) \cap PatternAlternatives(pt)
    IN  IF "triangle" \in ks THEN "triangle" ELSE CHOOSE k \in ks : TRUE

(* any(match in expr for expr in problem.expressions): a factorial "n!" is
   inside a math-mode factorial as a suffix of its literal; a matched word is
   inside a math-mode word that holds it (the math-mode words of the
   vocabulary are lower-case, as the keywords are). "modulo n" has a blank
   and is inside no one-token expression. *)
MatchInExpression(problem, pt, i) ==
    \/ /\ pt = "factorial"
       /\ \E j \in problem.expressions :
             /\ problem.cleaned_text[j].k = "fact"
             /\ problem.cleaned_text[j].n
                  % Pow10Above(problem.cleaned_text[i].n)
                = problem.cleaned_text[i].n
    \/ /\ pt \in {"sequence", "divisibility", "geometry"}
       /\ problem.cleaned_text[i].k = "word"
       /\ \E j \in problem.expressions :
             /\ problem.cleaned_text[j].k = "word"
             /\ MatchedKeyword(problem.cleaned_text[i], pt)
                  \in KeywordsIn(problem.cleaned_text[j].w)

(* the confidence without the term for the problem type *)
calculate_pattern_confidence_untyped(pt, i, problem) ==
    LET c1 == IF HasAny(problem.cleaned_text, PatternTypeIndicators(pt))
              THEN 2 ELSE 0
        c2 == IF MatchInExpression(problem, pt, i) THEN 2 ELSE 0
    IN  Min(5 + c1 + c2, 10)

(* _calculate_pattern_confidence, in tenths *)
calculate_pattern_confidence(pt, i, problem) ==
    LET c1 == IF HasAny(problem.cleaned_text, PatternTypeIndicators(pt))
              THEN 2 ELSE 0
        c2 == IF MatchInExpression(problem, pt, i) THEN 2 ELSE 0
        c3 == IF problem.problem_type = pt THEN 1 ELSE 0
    IN  Min(5 + c1 + c2 + c3, 10)

RECURSIVE MatchesFrom(_, _, _)
MatchesFrom(problem, pt, i) ==
    IF i > Len(problem.cleaned_text) THEN <<>>
    ELSE (IF PatternMatchAt(problem.cleaned_text, pt, i)
          THEN <<[pattern_type |-> pt,
                  at |-> i,
                  value |-> PatternValue(problem.cleaned_text, pt, i),
                  confidence |-> calculate_pattern_confidence(pt, i, problem)]>>
          ELSE <<>>)
         \o MatchesFrom(problem, pt, i + 1)

(* _find_patterns: pattern types in table order, matches in text order *)
find_patterns(problem) ==
    MatchesFrom(problem, PatternTypes[1], 1)
    \o MatchesFrom(problem, PatternTypes[2], 1)
    \o MatchesFrom(problem, PatternTypes[3], 1)
    \o MatchesFrom(problem, PatternTypes[4], 1)
    \o MatchesFrom(problem, PatternTypes[5], 1)

KeyLess(a, b) ==
    \/ Priority(a.pattern_type) < Priority(b.pattern_type)
    \/ /\ Priority(a.pattern_type) = Priority(b.pattern_type)
       /\ a.confidence < b.confidence

(* a descending sort that is not stable: of equal keys the last found
   comes first *)
RECURSIVE sorted_matches_unstable(_)
sorted_matches_unstable(ms) ==
    IF ms = <<>> THEN <<>>
    ELSE LET i == CHOOSE j \in 1..Len(ms) :
                      /\ \A l \in 1..Len(ms) : ~KeyLess(ms[j], ms[l])
                      /\ \A l \in (j + 1)..Len(ms) : KeyLess(ms[l], ms[j])
         IN  <<ms[i]>>
             \o sorted_matches_unstable(
                    SubSeq(ms, 1, i - 1) \o SubSeq(ms, i + 1, Len(ms)))

(* sorted(matches, key = (priority, confidence), reverse = True): stable *)
RECURSIVE sorted_matches(_)
sorted_matches(ms) ==
    IF ms = <<>> THEN <<>>
    ELSE LET i == CHOOSE j \in 1..Len(ms) :
                      /\ \A l \in 1..Len(ms) : ~KeyLess(ms[j], ms[l])
                      /\ \A l \in 1..(j - 1) : KeyLess(ms[l], ms[j])
         IN  <<ms[i]>>
             \o sorted_matches(SubSeq(ms, 1, i - 1) \o SubSeq(ms, i + 1, Len(ms)))

pattern_handle_modulo(problem, match) ==
    IF problem.numbers = <<>> THEN None
    ELSE IF match.value = 0 THEN Caught(Raise)
    ELSE Val(PyMod(problem.numbers[Len(problem.numbers)], match.value))

pattern_handle_factorial(problem, match) ==
    IF match.value > 20 THEN Val(pattern_factorial_mod_1000(match.value))
    ELSE Val(ProdLoop(1, match.value + 1, 1, 1000))

(* the local fib_mod_1000 of _handle_fibonacci *)
fib_mod_1000(n) ==
    IF n <= 1 THEN n
    ELSE FibLoop((n + 1) - 2, <<0, 1>>, 1000)[2]

pattern_handle_fibonacci(problem) ==
    LET numbers == SelectSeq(problem.numbers, LAMBDA x : x <= 100)
    IN  IF numbers # <<>> THEN Val(fib_mod_1000(SeqMin(numbers))) ELSE None

pattern_handle_arithmetic_sequence(problem) ==
    IF Len(problem.numbers) >= 2
    THEN Val((problem.numbers[2] - problem.numbers[1]) % 1000)
    ELSE None

pattern_handle_sequence(problem, match) ==
    IF Has(problem.cleaned_text, "fibonacci")
    THEN pattern_handle_fibonacci(problem)
    ELSE IF Has(problem.cleaned_text, "arithmetic")
    THEN pattern_handle_arithmetic_sequence(problem)
    ELSE None

(* _gcd: while b: a, b = b, a % b *)
RECURSIVE pattern_gcd(_, _)
pattern_gcd(a, b) == IF b = 0 THEN a ELSE pattern_gcd(b, PyMod(a, b))

pattern_handle_divisibility(problem, match) ==
    IF Len(problem.numbers) >= 2
    THEN Val(pattern_gcd(problem.numbers[1], problem.numbers[2]) % 1000)
    ELSE None

(* _handle_triangle and _handle_circle are not defined. *)
pattern_handle_geometry(problem, match) ==
    IF Has(problem.cleaned_text, "triangle") THEN Caught(Undefined)
    ELSE IF Has(problem.cleaned_text, "circle") THEN Caught(Undefined)
    ELSE None

PatternHandler(problem, match) ==
    CASE match.pattern_type = "modulo" -> pattern_handle_modulo(problem, match)
      [] match.pattern_type = "factorial" ->
            pattern_handle_factorial(problem, match)
      [] match.pattern_type = "sequence" ->
            pattern_handle_sequence(problem, match)
      [] match.pattern_type = "divisibility" ->
            pattern_handle_divisibility(problem, match)
      [] match.pattern_type = "geometry" ->
            pattern_handle_geometry(problem, match)

(* the loop of solve ended by the first handler that gives no result *)
TryPatternHandlers_first_only(problem, ms) ==
    IF ms = <<>> THEN None ELSE Caught(PatternHandler(problem, ms[1]))

(* the loop of solve over the sorted matches: the first result that is not
   None; a handler's exception is skipped. *)
RECURSIVE TryPatternHandlers(_, _)
TryPatternHandlers(problem, ms) ==
    IF ms = <<>> THEN None
    ELSE LET result == Caught(PatternHandler(problem, ms[1]))
         IN  IF result # None THEN result
             ELSE TryPatternHandlers(problem, Tail(ms))

(* _handle_by_type: building type_handlers reads self._handle_number_theory,
   which is not defined, outside any try. *)
pattern_handle_by_type(problem) == Undefined

(* _basic_numerical_analysis *)
basic_numerical_analysis(problem) ==
    LET numbers == problem.numbers
        InRng(x) == 0 <= x /\ x <= 999
    IN  IF numbers = <<>> THEN Val(42)
        ELSE IF InRng(SeqMax(numbers)) THEN Val(SeqMax(numbers))
        ELSE IF InRng(SeqMin(numbers)) THEN Val(SeqMin(numbers))
        ELSE IF InRng(SeqSum(numbers)) THEN Val(SeqSum(numbers))
        ELSE IF InRng(SeqProd(numbers)) THEN Val(SeqProd(numbers))
        ELSE Val(SeqMax(numbers) % 1000)

(* what solve hands to its loop: the matches as _find_patterns found them
   and as sorted() ordered them *)
pattern_matches(text) ==
    LET problem == preprocess(text)
    IN  IF problem.tag = "raise" THEN [found |-> <<>>, order |-> <<>>]
        ELSE The({[found |-> ms, order |-> sorted_matches(ms)] :
                  ms \in {find_patterns(problem)}})

PatternSolve(text) ==
    LET problem == preprocess(text)
    IN  IF problem.tag = "raise" THEN Result(Val(42), "except", {})
        ELSE LET result == TryPatternHandlers(
                               problem, sorted_matches(find_patterns(problem)))
                 typed == pattern_handle_by_type(problem)
             IN  IF result # None
                 THEN Result(Val(ensure_valid_answer(result.v, 1)), "handler", {})
                 ELSE IF typed.tag = "raise"
                 THEN Result(Val(42), "except", {})
                 ELSE IF typed # None
                 THEN Result(Val(ensure_valid_answer(typed.v, 1)), "handler", {})
                 ELSE Result(basic_numerical_analysis(problem), "heuristic", {})

-----------------------------------------------------------------------------
(* The common shape of the five domain solvers' solve(): preprocess, parse,
   handler, _ensure_valid_answer of a handler result, else the heuristic's
   value as it is; any exception that reaches solve returns 42. *)

FinishSolveZero(problem, handled, heuristic, used) ==
    IF problem.tag = "raise" THEN Result(Val(0), "except", {})
    ELSE IF handled # None
    THEN Result(Val(ensure_valid_answer(handled.v, 1)), "handler", used)
    ELSE IF heuristic.tag = "raise" THEN Result(Val(0), "except", used)
    ELSE IF problem.numbers = <<>> THEN Result(Val(0), "sentinel", used)
    ELSE Result(heuristic, "heuristic", used)

FinishSolveUncaught(problem, handled, heuristic, used) ==
    IF problem.tag = "raise" THEN Result(Raise, "except", {})
    ELSE IF handled # None
    THEN Result(Val(ensure_valid_answer(handled.v, 1)), "handler", used)
    ELSE IF heuristic.tag = "raise" THEN Result(Raise, "except", used)
    ELSE IF problem.numbers = <<>> THEN Result(heuristic, "sentinel", used)
    ELSE Result(heuristic, "heuristic", used)

FinishSolve(problem, handled, heuristic, used) ==
    IF problem.tag = "raise" THEN Result(Val(42), "except", {})
    ELSE IF handled # None
    THEN Result(Val(ensure_valid_answer(handled.v, 1)), "handler", used)
    ELSE IF heuristic.tag = "raise" THEN Result(Val(42), "except", used)
    ELSE IF problem.numbers = <<>> THEN Result(heuristic, "sentinel", used)
    ELSE Result(heuristic, "heuristic", used)

-----------------------------------------------------------------------------
(* solvers/geometry_solver.py *)

(* "triangle\s+(?:\\triangle\s+)?([A-Z]{3})", case-sensitive, at token i *)
TriangleMatchAt(toks, i) ==
    /\ toks[i].k = "word"
    /\ toks[i].w = "triangle"
    /\ i < Len(toks)
    /\ toks[i + 1].k = "label"

(* the triangle elements, in the order of their matches *)
RECURSIVE TrianglesFrom(_, _)
TrianglesFrom(toks, i) ==
    IF i > Len(toks) THEN <<>>
    ELSE (IF TriangleMatchAt(toks, i) THEN <<toks[i + 1].pts>> ELSE <<>>)
         \o TrianglesFrom(toks, i + 1)

(* "([A-Z]{2})\s*=\s*(\d+)": a length token, and the last two letters of
   an angle token *)
RECURSIVE LengthConstraints(_)
LengthConstraints(toks) ==
    IF toks = <<>> THEN <<>>
    ELSE (CASE Head(toks).k = "len" ->
                  <<[elements |-> Head(toks).pts, value |-> Head(toks).n]>>
            [] Head(toks).k = "ang" ->
                  <<[elements |-> SubSeq(Head(toks).pts, 2, 3),
                     value |-> Head(toks).n]>>
            [] OTHER -> <<>>)
         \o LengthConstraints(Tail(toks))

RECURSIVE AngleConstraints(_)
AngleConstraints(toks) ==
    IF toks = <<>> THEN <<>>
    ELSE (IF Head(toks).k = "ang"
          THEN <<[elements |-> Head(toks).pts, value |-> Head(toks).n]>>
          ELSE <<>>)
         \o AngleConstraints(Tail(toks))

identify_target_property(toks) ==
    IF Has(toks, "area") THEN "area"
    ELSE IF Has(toks, "length") \/ Has(toks, "distance") THEN "distance"
    ELSE IF Has(toks, "angle") THEN "angle"
    ELSE IF Has(toks, "ratio") THEN "ratio"
    ELSE "unknown"

parse_geometric_problem(problem) ==
    [triangles |-> TrianglesFrom(problem.cleaned_text, 1),
     lengths |-> LengthConstraints(problem.cleaned_text),
     angles |-> AngleConstraints(problem.cleaned_text),
     target_property |-> identify_target_property(problem.cleaned_text)]

Reversed2(side) == <<side[2], side[1]>>

(* next(c['value'] for c in constraints if ...): the values of the
   constraints that satisfy Ok, in order *)
ValuesWhere(cs, Ok(_)) ==
    LET sel == SelectSeq(cs, Ok)
    IN  [j \in 1..Len(sel) |-> sel[j].value]

(* _get_triangle_sides *)
get_triangle_sides(vertices, lengths) ==
    LET SideOf(i) == <<vertices[i], vertices[(i % 3) + 1]>>
        Found(i) == ValuesWhere(lengths,
                        LAMBDA c : c.elements = SideOf(i)
                                   \/ c.elements = Reversed2(SideOf(i)))
        First(i) == IF Found(i) = <<>> THEN <<>> ELSE <<Found(i)[1]>>
    IN  First(1) \o First(2) \o First(3)

(* _get_triangle_angles *)
get_triangle_angles(vertices, angles) ==
    LET AngleOf(i) == <<vertices[((i + 1) % 3) + 1], vertices[i],
                        vertices[(i % 3) + 1]>>
        Found(i) == ValuesWhere(angles, LAMBDA c : c.elements = AngleOf(i))
        First(i) == IF Found(i) = <<>> THEN <<>> ELSE <<Found(i)[1]>>
    IN  First(1) \o First(2) \o First(3)

(* the largest r with r * r <= x, for x >= 0, searched in lo..hi *)
RECURSIVE IsqrtIn(_, _, _)
IsqrtIn(x, lo, hi) ==
    IF lo >= hi THEN lo
    ELSE LET mid == (lo + hi + 1) \div 2
         IN  IF mid * mid <= x THEN IsqrtIn(x, mid, hi)
             ELSE IsqrtIn(x, lo, mid - 1)

Isqrt(x) == IsqrtIn(x, 0, Min(x, 46340))

(* int(0.5 * a * b * math.sin(math.radians(angle))) for the angles of the
   vocabulary: sin is 1.0 at 90 and less than 1e-15 in size at 0 and 180. *)
SasAreaInt(a, b, angle) ==
    CASE angle = 90 -> (a * b) \div 2
      [] angle \in {0, 180} -> 0

(* _calculate_triangle_area; Heron's area is sqrt(h / 16) for
   h = (a+b+c)(-a+b+c)(a-b+c)(a+b-c), math.sqrt raises on a negative. *)
calculate_triangle_area(vertices, geo_problem) ==
    LET sides == get_triangle_sides(vertices, geo_problem.lengths)
        angles == get_triangle_angles(vertices, geo_problem.angles)
        h == (sides[1] + sides[2] + sides[3]) * (sides[2] + sides[3] - sides[1])
             * (sides[1] + sides[3] - sides[2]) * (sides[1] + sides[2] - sides[3])
    IN  IF Len(sides) = 3
        THEN (IF h < 0 THEN Caught(Raise) ELSE FloatVal(Isqrt(h) \div 4))
        ELSE IF Len(sides) = 2 /\ Len(angles) = 1
        THEN FloatVal(SasAreaInt(sides[1], sides[2], angles[1]))
        ELSE None

(* _calculate_area *)
calculate_area(geo_problem) ==
    IF geo_problem.triangles # <<>>
    THEN calculate_triangle_area(geo_problem.triangles[1], geo_problem)
    ELSE None

(* _solve_geometric_problem: of the property handlers only _calculate_area
   is defined, and so is not _solve_general_geometry. *)
solve_geometric_problem(geo_problem) ==
    IF geo_problem.target_property = "area" THEN Caught(calculate_area(geo_problem))
    ELSE Caught(Undefined)

(* _apply_geometric_heuristics *)
apply_geometric_heuristics(problem) ==
    LET toks == problem.cleaned_text
        numbers == problem.numbers
        big == SelectSeq(numbers, LAMBDA x : x > 10)
    IN  IF numbers = <<>> THEN Val(42)
        ELSE IF Has(toks, "triangle")
        THEN (IF Has(toks, "right") \/ Has(toks, "perpendicular") THEN Val(90)
              ELSE IF Has(toks, "equilateral") THEN Val(60)
              ELSE FloatVal(SeqMax(numbers) % 1000))
        ELSE IF Has(toks, "circle")
        THEN (IF (Has(toks, "diameter") \/ Has(toks, "radius")) /\ big # <<>>
              THEN Val(big[1] % 1000)
              ELSE Val(360))
        ELSE FloatVal(SeqMax(numbers) % 1000)

GeometrySolve(text) ==
    LET problem == preprocess(text)
    IN  IF problem.tag = "raise" THEN Result(Val(42), "except", {})
        ELSE FinishSolve(problem,
                         solve_geometric_problem(parse_geometric_problem(problem)),
                         apply_geometric_heuristics(problem), {})

-----------------------------------------------------------------------------
(* solvers/number_theory_solver.py *)

(* the first pattern of number_patterns that re.search finds *)
nt_problem_type(toks) ==
    IF HasAny(toks, {"divisible", "divides", "factor"}) THEN "divisibility"
    ELSE IF \E i \in 1..Len(toks) : ModuloMatchAt(toks, i) THEN "modulo"
    ELSE IF HasAny(toks, {"prime", "factor"}) THEN "prime"
    ELSE IF Has(toks, "gcd") THEN "gcd"
    ELSE IF Has(toks, "lcm") THEN "lcm"
    ELSE "unknown"

InHandlerRange(x) == 0 <= x /\ x <= 999

nt_handle_divisibility(numbers) ==
    IF Len(numbers) >= 2
    THEN (IF InHandlerRange(MathGcd(numbers[1], numbers[2]))
          THEN Val(MathGcd(numbers[1], numbers[2]))
          ELSE Val(SympyLcm(numbers[1], numbers[2]) % 1000))
    ELSE None

nt_handle_modulo(numbers) ==
    IF Len(numbers) >= 2
    THEN (IF numbers[Len(numbers)] = 0 THEN Caught(Raise)
          ELSE Val(PyMod(numbers[1], numbers[Len(numbers)])))
    ELSE None

nt_handle_prime(numbers) ==
    IF numbers = <<>> THEN None
    ELSE Val(Cardinality(primefactors(SeqMax(numbers))) % 1000)

RECURSIVE ReduceGcd(_)
ReduceGcd(s) ==
    IF Len(s) = 1 THEN s[1]
    ELSE ReduceGcd(<<MathGcd(s[1], s[2])>> \o SubSeq(s, 3, Len(s)))

RECURSIVE ReduceLcm(_)
ReduceLcm(s) ==
    IF Len(s) = 1 THEN s[1]
    ELSE ReduceLcm(<<SympyLcm(s[1], s[2])>> \o SubSeq(s, 3, Len(s)))

nt_handle_gcd(numbers) ==
    IF Len(numbers) >= 2 THEN Val(ReduceGcd(numbers) % 1000) ELSE None

nt_handle_lcm(numbers) ==
    IF Len(numbers) >= 2 THEN Val(ReduceLcm(numbers) % 1000) ELSE None

(* _solve_number_theory_problem; _solve_general_number_theory is not
   defined. *)
solve_number_theory_problem(ptype, numbers) ==
    CASE ptype = "divisibility" -> Caught(nt_handle_divisibility(numbers))
      [] ptype = "modulo" -> Caught(nt_handle_modulo(numbers))
      [] ptype = "prime" -> Caught(nt_handle_prime(numbers))
      [] ptype = "gcd" -> Caught(nt_handle_gcd(numbers))
      [] ptype = "lcm" -> Caught(nt_handle_lcm(numbers))
      [] OTHER -> Caught(Undefined)

RECURSIVE SetSum(_)
SetSum(S) ==
    IF S = {} THEN 0
    ELSE LET x == CHOOSE y \in S : TRUE IN x + SetSum(S \ {x})

(* _sum_of_divisors: math.sqrt raises on a negative n *)
sum_of_divisors(n) ==
    IF n < 0 THEN Raise
    ELSE Val(SetSum({i \in 1..n : n % i = 0}))

(* _apply_number_theory_heuristics *)
apply_number_theory_heuristics(problem) ==
    LET toks == problem.cleaned_text
        numbers == problem.numbers
        n == SeqMax(numbers)
        sigma == sum_of_divisors(n)
    IN  IF numbers = <<>> THEN Val(42)
        ELSE IF Has(toks, "prime")
        THEN (IF IsPrime(n) THEN Val(n % 1000)
              ELSE Val(Cardinality(primefactors(n)) % 1000))
        ELSE IF (Has(toks, "modulo") \/ Has(toks, "remainder"))
                /\ Len(numbers) >= 2
        THEN (IF numbers[Len(numbers)] = 0 THEN Raise
              ELSE Val(PyMod(numbers[1], numbers[Len(numbers)])))
        ELSE IF Has(toks, "divisor") \/ Has(toks, "factor")
        THEN (IF sigma.tag = "raise" THEN Raise ELSE Val(sigma.v % 1000))
        ELSE Val(n % 1000)

NumberTheorySolve(text) ==
    LET problem == preprocess(text)
    IN  IF problem.tag = "raise" THEN Result(Val(42), "except", {})
        ELSE FinishSolve(problem,
                         solve_number_theory_problem(
                             nt_problem_type(problem.cleaned_text),
                             problem.numbers),
                         apply_number_theory_heuristics(problem), {})

-----------------------------------------------------------------------------
(* functools.lru_cache on the solvers' methods.  A cache is a function from
   keys to the values stored for them; a call whose key is stored returns
   the stored value without running the body, a call that returns normally
   stores its value, an exception stores nothing.  maxsize = 1000 is never
   reached. *)

Key(f, a, b, bnone) == [f |-> f, a |-> a, b |-> b, bnone |-> bnone]

CachedCallAnyKey(c, key, computed) ==
    IF DOMAIN c # {} THEN Val(c[CHOOSE k \in DOMAIN c : TRUE]) ELSE computed

CachedCall(c, key, computed) ==
    IF key \in DOMAIN c THEN Val(c[key]) ELSE computed

Entry(key, out) == IF IsVal(out) THEN {<<key, out.v>>} ELSE {}

Store(c, used) ==
    [k \in DOMAIN c \cup {e[1] : e \in used} |->
        IF k \in DOMAIN c THEN c[k]
        ELSE (CHOOSE e \in used : e[1] = k)[2]]

FibKey(n) == Key("_generate_fibonacci", n, 0, TRUE)
FactKey(n) == Key("_factorial_mod_1000", n, 0, TRUE)
PermKey(n, r) ==
    IF r = None THEN Key("_permutation", n, 0, TRUE)
    ELSE Key("_permutation", n, r.v, FALSE)
CombKey(n, r) == Key("_combination", n, r, FALSE)

(* the body of the cached method a key names *)
Compute(key) ==
    CASE key.f = "_generate_fibonacci" -> Val(generate_fibonacci(key.a))
      [] key.f = "_factorial_mod_1000" -> Val(comb_factorial_mod_1000(key.a))
      [] key.f = "_permutation" ->
            Val(permutation(key.a, IF key.bnone THEN key.a ELSE key.b))
      [] key.f = "_combination" -> combination(key.a, key.b)

(* What a handler returns: a value it computed itself, or the value of one
   call of a cached method ("return self._permutation(n, r)"). *)
Direct(out) == [kind |-> "direct", out |-> out, key |-> Key("", 0, 0, TRUE)]
Call(key) == [kind |-> "call", out |-> None, key |-> key]

Run(c, plan) ==
    IF plan.kind = "direct" THEN plan.out
    ELSE CachedCall(c, plan.key, Compute(plan.key))

UsedBy(c, plan) ==
    IF plan.kind = "call" THEN Entry(plan.key, Run(c, plan)) ELSE {}

(* solve() of a solver with cached methods: the handler's plan, then, when
   it yields None, the heuristic's plan *)
FinishCachedSolve(c, problem, handler, heuristic) ==
    IF Caught(Run(c, handler)) # None
    THEN FinishSolve(problem, Caught(Run(c, handler)), None, UsedBy(c, handler))
    ELSE FinishSolve(problem, None, Run(c, heuristic),
                     UsedBy(c, handler) \cup UsedBy(c, heuristic))

-----------------------------------------------------------------------------
(* solvers/sequence_solver.py *)

sequence_type(toks) ==
    IF Has(toks, "fibonacci") THEN "fibonacci"
    ELSE IF Has(toks, "arithmetic") THEN "arithmetic"
    ELSE IF Has(toks, "geometric") THEN "geometric"
    ELSE IF Has(toks, "a_n=") THEN "recursive"
    ELSE "unknown"

(* re.search(r'a_(\d+)|F_(\d+)'): the first indexed term, if any *)
target_index(toks) ==
    LET idx == SelectSeq(toks, LAMBDA t : t.k = "idx")
    IN  IF idx = <<>> THEN None ELSE Val(idx[1].n)

target_property(toks) ==
    IF Has(toks, "sum") THEN "sum"
    ELSE IF Has(toks, "product") THEN "product"
    ELSE "term"

parse_sequence_problem(problem) ==
    [sequence_type |-> sequence_type(problem.cleaned_text),
     terms |-> problem.numbers,
     target_index |-> target_index(problem.cleaned_text),
     target_property |-> target_property(problem.cleaned_text)]

IsFibonacciLike(terms) ==
    \A i \in 3..Len(terms) : terms[i] = (terms[i - 1] + terms[i - 2]) % 1000

seq_handle_fibonacci(sp) ==
    IF sp.target_index # None
    THEN Call(FibKey(sp.target_index.v))
    ELSE IF Len(sp.terms) >= 3 /\ IsFibonacciLike(sp.terms)
    THEN Direct(FloatVal((sp.terms[Len(sp.terms)]
                          + sp.terms[Len(sp.terms) - 1]) % 1000))
    ELSE Direct(None)

SameDifferences(terms) ==
    \A i \in 2..Len(terms) : terms[i] - terms[i - 1] = terms[2] - terms[1]

seq_handle_arithmetic(sp) ==
    LET terms == sp.terms
        d == terms[2] - terms[1]
    IN  IF Len(terms) >= 2 /\ SameDifferences(terms)
        THEN (IF sp.target_index # None
              THEN Val((terms[1] + (sp.target_index.v - 1) * d) % 1000)
              ELSE Val((terms[Len(terms)] + d) % 1000))
        ELSE None

(* the ratios terms[i] / terms[i-1] over the nonzero terms[i-1], as pairs
   <<numerator, denominator>> *)
Ratios(terms) ==
    LET idx == SelectSeq([i \in 1..(Len(terms) - 1) |-> i + 1],
                         LAMBDA i : terms[i - 1] # 0)
    IN  [j \in 1..Len(idx) |-> <<terms[idx[j]], terms[idx[j] - 1]>>]

SameRatios(ratios) ==
    \A j \in 1..Len(ratios) :
        ratios[j][1] * ratios[1][2] = ratios[1][1] * ratios[j][2]

RECURSIVE Pow(_, _)
Pow(b, e) == IF e = 0 THEN 1 ELSE b * Pow(b, e - 1)

(* int(first * ratio ** e) for the ratio num / den *)
GeometricTermInt(first, num, den, e) ==
    IF e >= 0 THEN Val(PyIntDiv(first * Pow(num, e), Pow(den, e)))
    ELSE IF num = 0 THEN Raise
    ELSE Val(PyIntDiv(first * Pow(den, -e), Pow(num, -e)))

seq_handle_geometric(sp) ==
    LET terms == sp.terms
        ratios == Ratios(terms)
        r == ratios[1]
        nth == GeometricTermInt(terms[1], r[1], r[2], sp.target_index.v - 1)
    IN  IF Len(terms) >= 2 /\ SameRatios(ratios)
        THEN (IF ratios = <<>> THEN Caught(Raise)
              ELSE IF sp.target_index # None
              THEN (IF nth.tag = "raise" THEN Caught(Raise)
                    ELSE Val(nth.v % 1000))
              ELSE Val(PyIntDiv(terms[Len(terms)] * r[1], r[2]) % 1000))
        ELSE None

(* _handle_recursive with the geometric test made before the arithmetic *)
seq_handle_recursive_geometric_first(sp) ==
    IF Len(sp.terms) >= 3
    THEN (IF SameRatios(Ratios(sp.terms))
          THEN Direct(seq_handle_geometric(sp))
          ELSE IF SameDifferences(sp.terms)
          THEN Direct(seq_handle_arithmetic(sp))
          ELSE IF IsFibonacciLike(sp.terms) THEN seq_handle_fibonacci(sp)
          ELSE Direct(None))
    ELSE Direct(None)

seq_handle_recursive(sp) ==
    IF Len(sp.terms) >= 3
    THEN (IF SameDifferences(sp.terms) THEN Direct(seq_handle_arithmetic(sp))
          ELSE IF SameRatios(Ratios(sp.terms))
          THEN Direct(seq_handle_geometric(sp))
          ELSE IF IsFibonacciLike(sp.terms) THEN seq_handle_fibonacci(sp)
          ELSE Direct(None))
    ELSE Direct(None)

(* product = 1; for term in terms: product = (product * term) % 1000 *)
RECURSIVE ProductModFrom(_, _)
ProductModFrom(product, terms) ==
    IF terms = <<>> THEN product
    ELSE ProductModFrom((product * Head(terms)) % 1000, Tail(terms))

solve_general_sequence(sp) ==
    LET terms == sp.terms
    IN  IF terms = <<>> THEN None
        ELSE IF sp.target_property = "sum" THEN Val(SeqSum(terms) % 1000)
        ELSE IF sp.target_property = "product"
        THEN FloatVal(ProductModFrom(1, terms))
        ELSE IF Len(terms) >= 2
        THEN Val((terms[Len(terms)]
                  + (terms[Len(terms)] - terms[Len(terms) - 1])) % 1000)
        ELSE None

solve_sequence_problem(sp) ==
    CASE sp.sequence_type = "fibonacci" -> seq_handle_fibonacci(sp)
      [] sp.sequence_type = "arithmetic" -> Direct(seq_handle_arithmetic(sp))
      [] sp.sequence_type = "geometric" -> Direct(seq_handle_geometric(sp))
      [] sp.sequence_type = "recursive" -> seq_handle_recursive(sp)
      [] OTHER -> Direct(solve_general_sequence(sp))

(* _apply_sequence_heuristics *)
apply_sequence_heuristics(problem) ==
    LET toks == problem.cleaned_text
        numbers == problem.numbers
        final == numbers[Len(numbers)]
    IN  IF numbers = <<>> THEN Direct(Val(42))
        ELSE IF Has(toks, "fibonacci") THEN Call(FibKey(10))
        ELSE IF Has(toks, "arithmetic") /\ Len(numbers) >= 2
        THEN Direct(Val((final + (numbers[2] - numbers[1])) % 1000))
        ELSE IF Has(toks, "geometric") /\ Len(numbers) >= 2 /\ numbers[1] # 0
        THEN Direct(Val(PyIntDiv(final * numbers[2], numbers[1]) % 1000))
        ELSE Direct(Val(SeqMax(numbers) % 1000))

SequenceSolve(c, text) ==
    LET problem == preprocess(text)
    IN  IF problem.tag = "raise" THEN Result(Val(42), "except", {})
        ELSE FinishCachedSolve(
                 c, problem,
                 solve_sequence_problem(parse_sequence_problem(problem)),
                 apply_sequence_heuristics(problem))

-----------------------------------------------------------------------------
(* solvers/combinatorics_solver.py *)

comb_problem_type(toks) ==
    IF HasAny(toks, {"permutation", "arrange", "order"}) THEN "permutation"
    ELSE IF HasAny(toks, {"combination", "choose", "select"}) THEN "combination"
    ELSE IF HasAny(toks, {"arrangement", "place", "position", "distribute"})
    THEN "arrangement"
    ELSE IF HasAny(toks, {"partition", "divide", "split", "separate"})
    THEN "partition"
    ELSE "unknown"

parse_combinatorics_problem(problem) ==
    LET numbers == Sorted(problem.numbers)
    IN  [problem_type |-> comb_problem_type(problem.cleaned_text),
         total_elements |->
             IF numbers # <<>> THEN numbers[Len(numbers)] ELSE 0,
         select_elements |->
             IF Len(numbers) > 1 THEN Val(numbers[Len(numbers) - 1]) ELSE None,
         is_ordered |->
             HasAny(problem.cleaned_text,
                    {"order", "arrange", "permute", "sequence", "lineup",
                     "position", "rank"}),
         allow_repetition |->
             HasAny(problem.cleaned_text, {"repetition", "reuse", "again"})]

(* pow(b, e, 1000): a negative e needs the inverse of b *)
PyPowMod(b, e) ==
    IF e >= 0 THEN Val(PowMod(b, e))
    ELSE LET inv == PowInv(b % 1000, 1000)
         IN  IF inv.tag = "raise" THEN Raise ELSE Val(PowMod(inv.v, -e))

RepeatedPermutation(cp) ==
    IF cp.select_elements # None
    THEN PyPowMod(cp.total_elements, cp.select_elements.v)
    ELSE PyPowMod(cp.total_elements, cp.total_elements)

comb_handle_permutation(cp) ==
    IF cp.allow_repetition THEN Direct(RepeatedPermutation(cp))
    ELSE Call(PermKey(cp.total_elements, cp.select_elements))

comb_handle_combination(cp) ==
    IF cp.select_elements = None THEN Direct(None)
    ELSE IF cp.allow_repetition
    THEN Call(CombKey(cp.total_elements + cp.select_elements.v - 1,
                      cp.select_elements.v))
    ELSE Call(CombKey(cp.total_elements, cp.select_elements.v))

comb_handle_arrangement(cp) ==
    IF cp.is_ordered THEN comb_handle_permutation(cp)
    ELSE comb_handle_combination(cp)

(* the inner loop without its reduction *)
RECURSIVE PartitionInner_unreduced(_, _, _, _)
PartitionInner_unreduced(dp, i, lo, hi) ==
    IF lo >= hi THEN dp
    ELSE PartitionInner_unreduced(
             [dp EXCEPT ![lo] = dp[lo] + dp[lo - i]], i, lo + 1, hi)

(* for j in range(lo, hi): dp[j] = (dp[j] + dp[j - i]) % 1000 *)
RECURSIVE PartitionInner(_, _, _, _)
PartitionInner(dp, i, lo, hi) ==
    IF lo >= hi THEN dp
    ELSE IF hi - lo = 1
    THEN [dp EXCEPT ![lo] = (dp[lo] + dp[lo - i]) % 1000]
    ELSE LET mid == lo + ((hi - lo) \div 2)
             left == PartitionInner(dp, i, lo, mid)
         IN  IF left = left THEN PartitionInner(left, i, mid, hi) ELSE left

(* for i in range(lo, hi): the inner loop over range(i, n + 1) *)
RECURSIVE PartitionOuter(_, _, _, _)
PartitionOuter(dp, lo, hi, n) ==
    IF lo >= hi THEN dp
    ELSE IF hi - lo = 1 THEN PartitionInner(dp, lo, lo, n + 1)
    ELSE LET mid == lo + ((hi - lo) \div 2)
             left == PartitionOuter(dp, lo, mid, n)
         IN  IF left = left THEN PartitionOuter(left, mid, hi, n) ELSE left

comb_handle_partition(cp) ==
    LET n == cp.total_elements
        dp0 == [j \in 0..n |-> IF j = 0 THEN 1 ELSE 0]
    IN  IF n <= 0 THEN Direct(Val(IF n = 0 THEN 1 ELSE 0))
        ELSE Direct(Val(PartitionOuter(dp0, 1, n + 1, n)[n]))

solve_general_combinatorics(cp) ==
    IF cp.is_ordered
    THEN (IF cp.allow_repetition THEN Direct(RepeatedPermutation(cp))
          ELSE Call(PermKey(cp.total_elements, cp.select_elements)))
    ELSE IF cp.select_elements = None THEN Direct(None)
    ELSE IF cp.allow_repetition
    THEN Call(CombKey(cp.total_elements + cp.select_elements.v - 1,
                      cp.select_elements.v))
    ELSE Call(CombKey(cp.total_elements, cp.select_elements.v))

solve_combinatorics_problem(cp) ==
    CASE cp.problem_type = "permutation" -> comb_handle_permutation(cp)
      [] cp.problem_type = "combination" -> comb_handle_combination(cp)
      [] cp.problem_type = "arrangement" -> comb_handle_arrangement(cp)
      [] cp.problem_type = "partition" -> comb_handle_partition(cp)
      [] OTHER -> solve_general_combinatorics(cp)

(* _apply_combinatorics_heuristics *)
apply_combinatorics_heuristics(problem) ==
    LET toks == problem.cleaned_text
        numbers == problem.numbers
        n == SeqMax(numbers)
        r == IF Len(numbers) > 1
             THEN Val(Sorted(numbers)[Len(numbers) - 1]) ELSE None
    IN  IF numbers = <<>> THEN Direct(Val(42))
        ELSE IF Has(toks, "permutation") \/ Has(toks, "arrange")
        THEN Call(PermKey(n, r))
        ELSE IF (Has(toks, "combination") \/ Has(toks, "choose")) /\ r # None
        THEN Call(CombKey(n, r.v))
        ELSE IF Has(toks, "ways")
        THEN (IF r # None THEN Call(CombKey(n, r.v)) ELSE Call(FactKey(n)))
        ELSE Direct(Val(SeqMax(numbers) % 1000))

CombinatoricsSolve(c, text) ==
    LET problem == preprocess(text)
    IN  IF problem.tag = "raise" THEN Result(Val(42), "except", {})
        ELSE FinishCachedSolve(
                 c, problem,
                 solve_combinatorics_problem(parse_combinatorics_problem(problem)),
                 apply_combinatorics_heuristics(problem))

-----------------------------------------------------------------------------
(* solvers/arithmetic_solver.py *)

arith_problem_type(toks) ==
    IF HasAny(toks, {"mean", "average"}) THEN "mean"
    ELSE IF HasAny(toks, {"sum", "total", "add"}) THEN "sum"
    ELSE IF HasAny(toks, {"product", "multiply"}) THEN "product"
    ELSE IF HasAny(toks, {"ratio", "proportion", "divide"}) THEN "ratio"
    ELSE IF HasAny(toks, {"remainder", "modulo", "mod"}) THEN "remainder"
    ELSE "unknown"

(* the search for "equals" followed by a number, case-sensitive: the number
   after the first "equals" that one follows *)
target_value(toks) ==
    LET at == SelectSeq([i \in 1..(Len(toks) - 1) |-> i],
                        LAMBDA i : /\ toks[i].k = "word"
                                   /\ toks[i].w = "equals"
                                   /\ StartsWithDigits(toks[i + 1]))
    IN  IF at = <<>> THEN None ELSE Val(toks[at[1] + 1].n)

parse_arithmetic_problem(problem) ==
    [problem_type |-> arith_problem_type(problem.cleaned_text),
     numbers |-> problem.numbers,
     target_value |-> target_value(problem.cleaned_text),
     is_reverse |-> Has(problem.cleaned_text, "what")
                    \/ Has(problem.cleaned_text, "find")]

arith_handle_mean(ap) ==
    IF ap.numbers = <<>> THEN None
    ELSE IF ap.is_reverse
    THEN (IF ap.target_value # None
          THEN Val((ap.target_value.v * Len(ap.numbers) - SeqSum(ap.numbers))
                   % 1000)
          ELSE None)
    ELSE Val(PyInt(SeqSum(ap.numbers), Len(ap.numbers)) % 1000)

arith_handle_sum(ap) ==
    IF ap.numbers = <<>> THEN None
    ELSE IF ap.is_reverse
    THEN (IF ap.target_value # None
          THEN Val((ap.target_value.v - SeqSum(ap.numbers)) % 1000)
          ELSE None)
    ELSE Val(SeqSum(ap.numbers) % 1000)

(* reduce(lambda x, y: (x * y) % 1000, numbers): one number is returned as
   it is *)
ReduceProductMod(numbers) ==
    IF Len(numbers) = 1 THEN numbers[1]
    ELSE ProductModFrom((numbers[1] * numbers[2]) % 1000,
                        SubSeq(numbers, 3, Len(numbers)))

arith_handle_product(ap) ==
    IF ap.numbers = <<>> THEN None
    ELSE IF ap.is_reverse
    THEN (IF ap.target_value # None
          THEN (IF SeqProd(ap.numbers) = 0 THEN Caught(Raise)
                ELSE Val(PyIntDiv(ap.target_value.v, SeqProd(ap.numbers))
                         % 1000))
          ELSE None)
    ELSE Val(ReduceProductMod(ap.numbers))

(* the local gcd of _handle_ratio: while b: a, b = b, a % b *)
RECURSIVE arith_gcd(_, _)
arith_gcd(a, b) == IF b = 0 THEN a ELSE arith_gcd(b, PyMod(a, b))

arith_handle_ratio(ap) ==
    LET num == ap.numbers[1]
        den == ap.numbers[2]
        common == arith_gcd(num, den)
    IN  IF Len(ap.numbers) < 2 THEN None
        ELSE IF den = 0 THEN None
        ELSE Val((PyFloorDiv(num, common) + PyFloorDiv(den, common)) % 1000)

arith_handle_remainder(ap) ==
    LET sorted_nums == Sorted(ap.numbers)
        dividend == sorted_nums[Len(sorted_nums)]
        divisor == sorted_nums[Len(sorted_nums) - 1]
    IN  IF Len(ap.numbers) < 2 THEN None
        ELSE IF divisor = 0 THEN None
        ELSE Val(PyMod(dividend, divisor) % 1000)

(* _solve_general_arithmetic: the first operation, sum(x) % 1000, is always
   within 0..999 *)
solve_general_arithmetic(ap) ==
    IF ap.numbers = <<>> THEN None
    ELSE FloatVal(SeqSum(ap.numbers) % 1000)

solve_arithmetic_problem(ap) ==
    CASE ap.problem_type = "mean" -> Caught(arith_handle_mean(ap))
      [] ap.problem_type = "sum" -> Caught(arith_handle_sum(ap))
      [] ap.problem_type = "product" -> Caught(arith_handle_product(ap))
      [] ap.problem_type = "ratio" -> Caught(arith_handle_ratio(ap))
      [] ap.problem_type = "remainder" -> Caught(arith_handle_remainder(ap))
      [] OTHER -> Caught(solve_general_arithmetic(ap))

(* _apply_arithmetic_heuristics *)
apply_arithmetic_heuristics(problem) ==
    LET toks == problem.cleaned_text
        numbers == problem.numbers
    IN  IF numbers = <<>> THEN Val(42)
        ELSE IF Has(toks, "mean") \/ Has(toks, "average")
        THEN Val(PyInt(SeqSum(numbers), Len(numbers)) % 1000)
        ELSE IF Has(toks, "sum") \/ Has(toks, "total")
        THEN Val(SeqSum(numbers) % 1000)
        ELSE IF Has(toks, "product") \/ Has(toks, "multiply")
        THEN Val(ReduceProductMod(numbers))
        ELSE IF (Has(toks, "ratio") \/ Has(toks, "proportion"))
                /\ Len(numbers) >= 2
        THEN (IF numbers[2] = 0 THEN Raise
              ELSE Val(PyIntDiv(numbers[1] * 100, numbers[2]) % 1000))
        ELSE FloatVal(SeqMax(numbers) % 1000)

ArithmeticSolve(text) ==
    LET problem == preprocess(text)
    IN  IF problem.tag = "raise" THEN Result(Val(42), "except", {})
        ELSE FinishSolve(problem,
                         solve_arithmetic_problem(parse_arithmetic_problem(problem)),
                         apply_arithmetic_heuristics(problem), {})

-----------------------------------------------------------------------------
(* main.py: AIMOSolver *)

Solvers ==
    {"pattern", "geometry", "number_theory", "sequence", "combinatorics",
     "arithmetic"}

(* the categories of type_indicators, in the order of the table *)
Categories ==
    <<"geometry", "number_theory", "sequence", "combinatorics", "arithmetic">>

TypeIndicators(ptype) ==
    CASE ptype = "geometry" ->
            {"triangle", "circle", "angle", "perpendicular", "parallel",
             "distance", "area", "point"}
      [] ptype = "number_theory" ->
            {"divisible", "prime", "factor", "modulo", "remainder",
             "multiple", "gcd", "lcm"}
      [] ptype = "sequence" ->
            {"sequence", "series", "fibonacci", "term", "arithmetic",
             "geometric", "progression"}
      [] ptype = "combinatorics" ->
            {"ways", "arrange", "permutation", "combination", "possibility",
             "different"}
      [] ptype = "arithmetic" ->
            {"sum", "product", "mean", "average", "total", "ratio",
             "proportion"}

TypeScore(toks, ptype) ==
    Cardinality({kw \in TypeIndicators(ptype) : Has(toks, kw)})

identify_problem_type_nodefault(toks) ==
    Categories[CHOOSE i \in 1..5 :
                  \A j \in 1..5 :
                      /\ TypeScore(toks, Categories[j])
                            <= TypeScore(toks, Categories[i])
                      /\ j < i => TypeScore(toks, Categories[j])
                                     < TypeScore(toks, Categories[i])]

(* AIMOSolver._identify_problem_type on a string *)
identify_problem_type(toks) ==
    LET max_score == CHOOSE m \in 0..8 :
                        /\ \E i \in 1..5 : TypeScore(toks, Categories[i]) = m
                        /\ \A i \in 1..5 : TypeScore(toks, Categories[i]) <= m
        first == CHOOSE i \in 1..5 :
                    /\ TypeScore(toks, Categories[i]) = max_score
                    /\ \A j \in 1..(i - 1) :
                          TypeScore(toks, Categories[j]) # max_score
    IN  IF max_score > 0 THEN Categories[first] ELSE "pattern"

(* self.solvers[name].solve(text) *)
SolveWith(name, c, text) ==
    CASE name = "pattern" -> PatternSolve(text)
      [] name = "geometry" -> GeometrySolve(text)
      [] name = "number_theory" -> NumberTheorySolve(text)
      [] name = "sequence" -> SequenceSolve(c, text)
      [] name = "combinatorics" -> CombinatoricsSolve(c, text)
      [] name = "arithmetic" -> ArithmeticSolve(text)

InitStats ==
    [problems_processed |-> 0,
     solver_usage |-> [name \in Solvers |-> 0],
     successful_solves |-> 0]

EmptyCache == [k \in {} |-> 0]

(* What one call of solve_problem does: the value it returns or the
   exception that leaves it, the counters and caches after it, the category
   chosen, the solvers invoked in order, the path of the first solver's
   result and whether a cached method was answered from the cache. *)
Outcome(answer, st, c, ptype, invoked, path, hit) ==
    [answer |-> answer, stats |-> st, cache |-> c, ptype |-> ptype,
     invoked |-> invoked, path |-> path, hit |-> hit]

(* solve_problem from the result res of the chosen solver on *)
return_result(st, c, text, ptype, res) ==
    LET c1 == Store(c, res.used)
        hit == \E e \in res.used : e[1] \in DOMAIN c
        fallback == PatternSolve(text)
    IN  IF res.out.tag = "raise"
        THEN Outcome(Val(42), st, c1, ptype, <<ptype>>, res.path, hit)
        ELSE IF res.out # None
        THEN Outcome(Val(mod_1000(res.out.v, 1)),
                     [st EXCEPT !.successful_solves = @ + 1],
                     c1, ptype, <<ptype>>, res.path, hit)
        ELSE IF ptype # "pattern"
        THEN Outcome(IF fallback.out.tag = "raise" THEN Val(42)
                     ELSE IF fallback.out # None
                     THEN Val(mod_1000(fallback.out.v, 1))
                     ELSE Val(42),
                     st, c1, ptype, <<ptype, "pattern">>, res.path, hit)
        ELSE Outcome(Val(42), st, c1, ptype, <<ptype>>, res.path, hit)

(* solve_problem after the solver was chosen and counted *)
solve_with_chosen(st, c, text, ptype) ==
    The({return_result(st, c, text, ptype, res) :
            res \in {SolveWith(ptype, c, text)}})

(* solve_problem that counts the problem only after the solver was chosen *)
solve_problem_counted_late(st, c, text) ==
    IF text.null
    THEN Outcome(Val(42), st, c, "none", <<>>, "except", FALSE)
    ELSE The({solve_with_chosen(
                  [st EXCEPT !.problems_processed = @ + 1,
                             !.solver_usage[ptype] = @ + 1],
                  c, text, ptype) :
              ptype \in {identify_problem_type(text.toks)}})

(* AIMOSolver.solve_problem: None has no lower(), which the except clause
   turns into 42 after the problem was counted. *)
solve_problem(st, c, text) ==
    LET counted == [st EXCEPT !.problems_processed = @ + 1]
    IN  IF text.null
        THEN Outcome(Val(42), counted, c, "none", <<>>, "except", FALSE)
        ELSE The({solve_with_chosen(
                      [counted EXCEPT !.solver_usage[ptype] = @ + 1],
                      c, text, ptype) :
                  ptype \in {identify_problem_type(text.toks)}})

(* predict whose try block always fails: the except clause's record *)
predict_failed(id, o) == [id |-> id, answer |-> Val(0)]

(* predict(id_, question) on the one-cell frames holding id and the text,
   o being the outcome of its call solver.solve_problem(question_text): the
   record of the frame returned. item(0) yields the cell; an exception
   inside the try block gives the answer 0. *)
predict(id, o) ==
    [id |-> id,
     answer |-> IF o.answer.tag = "val"
                THEN [o.answer EXCEPT !.v = Max(0, Min(999, @))]
                ELSE Val(0)]

-----------------------------------------------------------------------------
(* utils/latex_parser.py *)

(* A text handed to the parser is None or a sequence of pieces; a piece is
     a run of plain words                   [k = "word"]
     a dollar sign "$"                      [k = "dollar"]
     a display opener "\["                  [k = "open"]
     a display closer "\]"                  [k = "close"]
     a decimal literal                      [k = "num", a]
     a fraction "\frac{a}{b}" of literals   [k = "frac", a, b]
     a fraction "\frac{x}{b}" of a letter   [k = "symfrac", b]
   A number is a pair <<a, b>> standing for a / b. *)
Piece(k, a, b) == [k |-> k, a |-> a, b |-> b]
NullLatex == [null |-> TRUE, ps |-> <<>>]
Latex(ps) == [null |-> FALSE, ps |-> ps]

(* the first place from i on where a piece of kind k stands, else 0 *)
RECURSIVE NextPiece(_, _, _)
NextPiece(ps, k, i) ==
    IF i > Len(ps) THEN 0
    ELSE IF ps[i].k = k THEN i ELSE NextPiece(ps, k, i + 1)

(* _find_inline_math: re.findall of "\$(.*?)\$" from place i on pairs the
   dollar signs as they come *)
RECURSIVE find_inline_math(_, _)
find_inline_math(ps, i) ==
    LET d1 == NextPiece(ps, "dollar", i)
        d2 == IF d1 = 0 THEN 0 ELSE NextPiece(ps, "dollar", d1 + 1)
    IN  IF d2 = 0 THEN <<>>
        ELSE <<[expr |-> SubSeq(ps, d1 + 1, d2 - 1), mode |-> "inline"]>>
             \o find_inline_math(ps, d2 + 1)

(* all display matches, empty ones included *)
RECURSIVE DisplayMatches(_, _)
DisplayMatches(ps, i) ==
    LET o1 == NextPiece(ps, "open", i)
        c1 == IF o1 = 0 THEN 0 ELSE NextPiece(ps, "close", o1 + 1)
    IN  IF c1 = 0 THEN <<>>
        ELSE <<[expr |-> SubSeq(ps, o1 + 1, c1 - 1), mode |-> "display"]>>
             \o DisplayMatches(ps, c1 + 1)

(* _find_display_math: the matches that are not empty *)
find_display_math(ps) ==
    SelectSeq(DisplayMatches(ps, 1), LAMBDA m : m.expr # <<>>)

(* re.findall(patterns['number'], expr) as floats *)
RECURSIVE LatexLiterals(_)
LatexLiterals(expr) ==
    IF expr = <<>> THEN <<>>
    ELSE (CASE Head(expr).k = "num" -> <<<<Head(expr).a, 1>>>>
            [] Head(expr).k = "frac" ->
                  <<<<Head(expr).a, 1>>, <<Head(expr).b, 1>>>>
            [] Head(expr).k = "symfrac" -> <<<<Head(expr).b, 1>>>>
            [] OTHER -> <<>>)
         \o LatexLiterals(Tail(expr))

(* the loop over the fractions: float(sympify(num)) / float(sympify(den));
   a zero denominator is caught and the fraction left out *)
RECURSIVE LatexQuotients(_)
LatexQuotients(expr) ==
    IF expr = <<>> THEN <<>>
    ELSE (IF Head(expr).k = "frac" /\ Head(expr).b # 0
          THEN <<<<Head(expr).a, Head(expr).b>>>> ELSE <<>>)
         \o LatexQuotients(Tail(expr))

(* _extract_numbers whose except clause does not name ZeroDivisionError *)
latex_extract_numbers_zero_uncaught(expr) ==
    IF \E i \in 1..Len(expr) :
          \/ expr[i].k = "symfrac"
          \/ expr[i].k = "frac" /\ expr[i].b = 0
    THEN Raise
    ELSE [tag |-> "val", v |-> LatexLiterals(expr) \o LatexQuotients(expr)]

(* _extract_numbers of the parser; float() of a symbol raises TypeError,
   which the loop does not catch *)
latex_extract_numbers(expr) ==
    IF \E i \in 1..Len(expr) : expr[i].k = "symfrac" THEN Raise
    ELSE [tag |-> "val", v |-> LatexLiterals(expr) \o LatexQuotients(expr)]

(* _parse_expression without its try *)
latex_parse_expression_uncaught(expr, mode) ==
    LET numbers == latex_extract_numbers(expr)
    IN  IF numbers.tag = "raise" THEN [tag |-> "raise"]
        ELSE [tag |-> "val", raw_text |-> expr, math_mode |-> mode,
              numbers |-> numbers.v]

(* _parse_expression: the LatexExpression, or None after an exception *)
latex_parse_expression(expr, mode) ==
    LET numbers == latex_extract_numbers(expr)
    IN  IF numbers.tag = "raise" THEN [tag |-> "none"]
        ELSE [tag |-> "val", raw_text |-> expr, math_mode |-> mode,
              numbers |-> numbers.v]

(* the loop of parse_problem over the spans found *)
RECURSIVE ParseSpans(_)
ParseSpans(spans) ==
    IF spans = <<>> THEN <<>>
    ELSE <<latex_parse_expression(Head(spans).expr, Head(spans).mode)>>
         \o ParseSpans(Tail(spans))

(* parse_problem: the list of expressions; None has no spans to find and
   an exception of the loop ends in "return []" *)
parse_problem(text) ==
    IF text.null THEN [tag |-> "val", v |-> <<>>]
    ELSE LET results == ParseSpans(find_inline_math(text.ps, 1)
                                   \o find_display_math(text.ps))
         IN  IF \E i \in 1..Len(results) : results[i].tag = "raise"
             THEN [tag |-> "val", v |-> <<>>]
             ELSE [tag |-> "val",
                   v |-> SelectSeq(results, LAMBDA r : r.tag = "val")]

-----------------------------------------------------------------------------
(* Inputs *)

MaxLen == 2
MaxCalls == 2
MaxCached == 2

Words == {"triangle", "remainder", "fibonacci", "combination", "sum"}
Literals == {0, 3, 4000}
Ids == {"057f8a", "1fce4b"}

Tokens == {WordTok(w) : w \in Words} \cup {NumTok(n) : n \in Literals}

(* texts with a zero denominator, alone and after each word *)
ZeroDenominatorTexts ==
    {Text(<<FracTok(1, 0)>>)}
    \cup {Text(<<WordTok(w), FracTok(1, 0)>>) : w \in Words}

(* longer texts, one for each path the short ones do not reach *)
RemainderText ==
    Text(<<WordTok("remainder"), NumTok(4000), NumTok(5000)>>)
NegativeRemainderText ==
    Text(<<WordTok("remainder"), NumTok(4000), NumTok(-7)>>)
ZeroRemainderText ==
    Text(<<WordTok("remainder"), NumTok(3), NumTok(0)>>)
ProductText ==
    Text(<<WordTok("what"), WordTok("product"), NumTok(4000)>>)
FactorialText == Text(<<FactTok(5)>>)
TriangleAreaText ==
    Text(<<WordTok("triangle"), LabelTok(<<"A", "B", "C">>),
           LenTok(<<"A", "B">>, 3), LenTok(<<"B", "C">>, 4),
           LenTok(<<"C", "A">>, 5), WordTok("area")>>)
GcdText == Text(<<WordTok("gcd"), NumTok(12), NumTok(18)>>)
ModuloText == Text(<<WordTok("modulo"), NumTok(7), NumTok(3)>>)
ChooseText ==
    Text(<<WordTok("combination"), NumTok(3), NumTok(3)>>)
LargeChooseText ==
    Text(<<WordTok("combination"), NumTok(4000), NumTok(5000)>>)
FallbackText ==
    Text(<<WordTok("remainder"), FactTok(5), NumTok(0)>>)
SumProductText ==
    Text(<<WordTok("remainder"), WordTok("sum"), WordTok("product")>>)

(* pattern matches of equal and of different priority and confidence *)
TieText == Text(<<WordTok("a_n"), FactTok(5)>>)
TwoFactorialText == Text(<<FactTok(5), FactTok(3)>>)
PriorityText ==
    Text(<<WordTok("triangle"), FactTok(5), WordTok("modulo"), NumTok(7)>>)
ConfidenceText ==
    Text(<<WordTok("fibonacci"), WordTok("a_n"), FactTok(5)>>)
FullConfidenceText ==
    Text(<<MathWordTok("a_n"), WordTok("fibonacci"), NumTok(3)>>)
(* a modulo by zero tried before a modulo that answers *)
ZeroModuloText ==
    Text(<<WordTok("modulo"), NumTok(0), WordTok("modulo"), NumTok(7),
           NumTok(12)>>)
(* the examples of tests/solvers/test_pattern_solver.py *)
ModuloExampleText ==
    Text(<<WordTok("find"), NumTok(999999), WordTok("modulo"), NumTok(1000)>>)
MathModuloExampleText ==
    Text(<<WordTok("what"), WordTok("is"), MathNumTok(2024),
           WordTok("modulo"), MathNumTok(1000)>>)
MathFactorialText == Text(<<WordTok("calculate"), MathFactTok(5)>>)
FactorialModuloText ==
    Text(<<WordTok("find"), FactTok(7), WordTok("modulo"), NumTok(1000)>>)
MathFactorialModuloText ==
    Text(<<WordTok("find"), MathFactTok(7), WordTok("modulo"),
           MathNumTok(1000)>>)
ZeroFactorialText == Text(<<FactTok(0)>>)
(* the example of tests/solvers/test_geometry_solver.py *)
HeronExampleText ==
    Text(<<WordTok("Triangle"), LabelTok(<<"A", "B", "C">>), WordTok("has"),
           WordTok("sides"), WordTok("of"), WordTok("length"), NumTok(3),
           NumTok(4), WordTok("and"), NumTok(5), WordTok("find"),
           WordTok("its"), WordTok("area")>>)
LargeFactorialText == Text(<<FactTok(21), WordTok("modulo"), NumTok(7)>>)

LongTexts ==
    {RemainderText, NegativeRemainderText, ZeroRemainderText, ProductText,
     FactorialText, TriangleAreaText, GcdText, ModuloText, ChooseText,
     LargeChooseText, FallbackText, SumProductText,
     TieText, TwoFactorialText, PriorityText, ConfidenceText,
     FullConfidenceText, ModuloExampleText, MathModuloExampleText,
     MathFactorialText, FactorialModuloText, MathFactorialModuloText,
     ZeroFactorialText, LargeFactorialText, HeronExampleText,
     ZeroModuloText}
    \cup ZeroDenominatorTexts

Texts ==
    {NullText}
    \cup {Text(toks) : toks \in UNION {[1..k -> Tokens] : k \in 0..MaxLen}}
    \cup LongTexts

(* Construction of the solvers: BaseSolver.__init__ sets is_initialized and
   the common tables, the subclass then builds its own pattern table. The
   table of GeometrySolver reads self._handle_triangle, which the class
   does not define, so its construction ends with AttributeError. *)
Unbuilt == [state |-> "none", is_initialized |-> FALSE, patterns |-> FALSE,
            calls |-> 0]

construct(name) ==
    IF name = "geometry"
    THEN [state |-> "raised", is_initialized |-> FALSE, patterns |-> FALSE,
          calls |-> 0]
    ELSE [state |-> "built", is_initialized |-> FALSE, patterns |-> TRUE,
          calls |-> 0]

(* initialize: _setup_resources does nothing; calls counts the calls made *)
initialize(solver) ==
    IF ~solver.is_initialized
    THEN [solver EXCEPT !.is_initialized = TRUE, !.calls = solver.calls + 1]
    ELSE [solver EXCEPT !.calls = solver.calls + 1]

(* texts for the parser *)
MaxPieces == 3

LatexAlphabet ==
    {Piece("word", 0, 0), Piece("dollar", 0, 0), Piece("open", 0, 0),
     Piece("close", 0, 0), Piece("num", 3, 0), Piece("frac", 3, 4),
     Piece("frac", 1, 0), Piece("symfrac", 0, 2)}

TwoSpansLatex ==
    Latex(<<Piece("dollar", 0, 0), Piece("symfrac", 0, 2),
            Piece("dollar", 0, 0), Piece("word", 0, 0),
            Piece("dollar", 0, 0), Piece("num", 3, 0),
            Piece("dollar", 0, 0)>>)
ZeroFractionLatex ==
    Latex(<<Piece("dollar", 0, 0), Piece("num", 3, 0), Piece("frac", 1, 0),
            Piece("frac", 3, 4), Piece("dollar", 0, 0)>>)
DisplayAndInlineLatex ==
    Latex(<<Piece("open", 0, 0), Piece("num", 3, 0), Piece("close", 0, 0),
            Piece("dollar", 0, 0), Piece("frac", 3, 4),
            Piece("dollar", 0, 0)>>)
UnmatchedThenSpanLatex ==
    Latex(<<Piece("dollar", 0, 0), Piece("word", 0, 0),
            Piece("dollar", 0, 0), Piece("num", 3, 0),
            Piece("dollar", 0, 0)>>)

LatexTexts ==
    {NullLatex, TwoSpansLatex, ZeroFractionLatex, DisplayAndInlineLatex,
     UnmatchedThenSpanLatex}
    \cup {Latex(ps) :
            ps \in UNION {[1..k -> LatexAlphabet] : k \in 0..MaxPieces}}

(* the texts of the question frames handed to predict: None, the long
   texts and the short ones of fewer than MaxLen tokens *)
Questions ==
    {NullText}
    \cup {Text(toks) :
            toks \in UNION {[1..k -> Tokens] : k \in 0..(MaxLen - 1)}}
    \cup LongTexts

-----------------------------------------------------------------------------
(* The dispatcher: calls of solve_problem on one AIMOSolver, each followed
   by the caller taking the answer *)

NoCall == [fn |-> "none", a |-> 0, b |-> 0, out |-> None]
NoSolve == [solver |-> "none", text |-> NullText, out |-> None, path |-> ""]
NoLast == [called |-> FALSE, text |-> NullText, answer |-> None,
           ptype |-> "none", invoked |-> <<>>, path |-> "", hit |-> FALSE]

NoTried == [found |-> <<>>, order |-> <<>>]
NoPredicted == [called |-> FALSE, id |-> "", returned |-> [id |-> "", answer |-> None]]

NoParsed == [fn |-> "none", input |-> <<>>, out |-> None]
NoBuilt == [name \in Solvers |-> Unbuilt]

Init ==
    /\ parsed = NoParsed
    /\ built = NoBuilt
    /\ call = NoCall
    /\ solved = NoSolve
    /\ tried = NoTried
    /\ predicted = NoPredicted
    /\ stats = InitStats
    /\ cache = EmptyCache
    /\ last = NoLast

SolveProblem ==
    /\ ~last.called
    /\ stats.problems_processed < MaxCalls
    /\ \E text \in Texts :
        \E o \in {solve_problem(stats, cache, text)} :
            /\ stats' = o.stats
            /\ cache' = o.cache
            /\ last' = [called |-> TRUE, text |-> text, answer |-> o.answer,
                        ptype |-> o.ptype, invoked |-> o.invoked,
                        path |-> o.path, hit |-> o.hit]
            /\ UNCHANGED <<parsed, built, call, solved, tried, predicted>>

ReturnToCaller ==
    /\ last.called
    /\ ~predicted.called
    /\ last' = NoLast
    /\ UNCHANGED <<parsed, built, call, solved, tried, stats, cache, predicted>>

Predict ==
    /\ ~last.called
    /\ ~predicted.called
    /\ stats.problems_processed < MaxCalls
    /\ \E text \in Questions :
        \E o \in {solve_problem(stats, cache, text)} :
            \E id \in Ids :
                /\ stats' = o.stats
                /\ cache' = o.cache
                /\ last' = [called |-> TRUE, text |-> text,
                            answer |-> o.answer, ptype |-> o.ptype,
                            invoked |-> o.invoked, path |-> o.path,
                            hit |-> o.hit]
                /\ predicted' = [called |-> TRUE, id |-> id,
                                 returned |-> predict(id, o)]
                /\ UNCHANGED <<parsed, built, call, solved, tried>>

ReturnFromPredict ==
    /\ predicted.called
    /\ predicted' = NoPredicted
    /\ last' = NoLast
    /\ UNCHANGED <<parsed, built, call, solved, tried, stats, cache>>

Next == SolveProblem \/ ReturnToCaller \/ Predict \/ ReturnFromPredict

Spec == Init /\ [][Next]_vars

-----------------------------------------------------------------------------
(* The solvers: calls of solve on the six solver instances *)

SolverCall(name) ==
    /\ solved = NoSolve
    /\ Cardinality(DOMAIN cache) < MaxCached
    /\ \E text \in Texts :
        \E res \in {SolveWith(name, cache, text)} :
            /\ solved' = [solver |-> name, text |-> text, out |-> res.out,
                          path |-> res.path]
            /\ cache' = Store(cache, res.used)
            /\ tried' = IF name = "pattern" THEN pattern_matches(text)
                         ELSE NoTried
            /\ UNCHANGED <<parsed, built, call, stats, last, predicted>>

PatternSolveCall == SolverCall("pattern")
GeometrySolveCall == SolverCall("geometry")
NumberTheorySolveCall == SolverCall("number_theory")
SequenceSolveCall == SolverCall("sequence")
CombinatoricsSolveCall == SolverCall("combinatorics")
ArithmeticSolveCall == SolverCall("arithmetic")

ReturnFromSolve ==
    /\ solved # NoSolve
    /\ solved' = NoSolve
    /\ tried' = NoTried
    /\ UNCHANGED <<parsed, built, call, stats, cache, last, predicted>>

NextSolve ==
    \/ PatternSolveCall
    \/ GeometrySolveCall
    \/ NumberTheorySolveCall
    \/ SequenceSolveCall
    \/ CombinatoricsSolveCall
    \/ ArithmeticSolveCall
    \/ ReturnFromSolve

SpecSolve == Init /\ [][NextSolve]_vars

-----------------------------------------------------------------------------
(* Calls of the library functions on bounded inputs *)

FibInputs == 0..MaxFibN
FactInputs == (0..MaxFactN) \cup ((Modulus - Over)..(Modulus + Over))
CombInputs == 0..MaxCombN
RealInputs == (-MaxAbsQ)..MaxAbsQ

InitMath == Init

CallMod1000 ==
    \E q \in RealInputs :
        /\ call.fn = "none"
        /\ call' = [fn |-> "mod_1000", a |-> q, b |-> RDen,
                 out |-> Val(mod_1000(q, RDen))]
        /\ UNCHANGED <<parsed, built, solved, tried, stats, cache, last, predicted>>

CallEnsureValidAnswer ==
    \E q \in RealInputs :
        /\ call.fn = "none"
        /\ call' = [fn |-> "_ensure_valid_answer", a |-> q, b |-> RDen,
                 out |-> Val(ensure_valid_answer(q, RDen))]
        /\ UNCHANGED <<parsed, built, solved, tried, stats, cache, last, predicted>>

CallFibonacciMod ==
    \E n \in FibInputs :
        /\ call.fn = "none"
        /\ call' = [fn |-> "fibonacci_mod", a |-> n, b |-> Modulus,
                 out |-> Val(fibonacci_mod(n, Modulus))]
        /\ UNCHANGED <<parsed, built, solved, tried, stats, cache, last, predicted>>

CallGenerateFibonacci ==
    \E n \in FibInputs :
        /\ call.fn = "none"
        /\ call' = [fn |-> "_generate_fibonacci", a |-> n, b |-> 1000,
                 out |-> Val(generate_fibonacci(n))]
        /\ UNCHANGED <<parsed, built, solved, tried, stats, cache, last, predicted>>

CallFactorialMod ==
    \E n \in FactInputs :
        /\ call.fn = "none"
        /\ call' = [fn |-> "factorial_mod", a |-> n, b |-> Modulus,
                 out |-> Val(factorial_mod(n, Modulus))]
        /\ UNCHANGED <<parsed, built, solved, tried, stats, cache, last, predicted>>

CallPatternFactorial ==
    \E n \in FactInputs :
        /\ call.fn = "none"
        /\ call' = [fn |-> "pattern._factorial_mod_1000", a |-> n, b |-> 1000,
                 out |-> Val(pattern_factorial_mod_1000(n))]
        /\ UNCHANGED <<parsed, built, solved, tried, stats, cache, last, predicted>>

CallCombFactorial ==
    \E n \in FactInputs :
        /\ call.fn = "none"
        /\ call' = [fn |-> "comb._factorial_mod_1000", a |-> n, b |-> 1000,
                 out |-> Val(comb_factorial_mod_1000(n))]
        /\ UNCHANGED <<parsed, built, solved, tried, stats, cache, last, predicted>>

CallBinomialMod ==
    \E n \in CombInputs, k \in CombInputs :
        /\ call.fn = "none"
        /\ call' = [fn |-> "binomial_mod", a |-> n, b |-> k,
                 out |-> Val(binomial_mod(n, k, Modulus))]
        /\ UNCHANGED <<parsed, built, solved, tried, stats, cache, last, predicted>>

CallCombination ==
    \E n \in CombInputs, r \in CombInputs :
        /\ call.fn = "none"
        /\ call' = [fn |-> "_combination", a |-> n, b |-> r,
                 out |-> combination(n, r)]
        /\ UNCHANGED <<parsed, built, solved, tried, stats, cache, last, predicted>>

CallPermutation ==
    \E n \in CombInputs, r \in CombInputs :
        /\ call.fn = "none"
        /\ call' = [fn |-> "_permutation", a |-> n, b |-> r,
                 out |-> Val(permutation(n, r))]
        /\ UNCHANGED <<parsed, built, solved, tried, stats, cache, last, predicted>>

MaxPartN == 23

(* _handle_partition on a CombinatoricsProblem with total_elements = n *)
CallHandlePartition ==
    \E n \in -2..MaxPartN :
        /\ call.fn = "none"
        /\ call' = [fn |-> "_handle_partition", a |-> n, b |-> 0,
                    out |-> comb_handle_partition(
                                [problem_type |-> "partition",
                                 total_elements |-> n,
                                 select_elements |-> None,
                                 is_ordered |-> FALSE,
                                 allow_repetition |-> FALSE]).out]
        /\ UNCHANGED <<parsed, built, solved, tried, stats, cache, last, predicted>>

MaxTerms == 3
TermValues == {0, 1, 2, 3, 5, 6, 300, 600, 700}
TermLists == UNION {[1..k -> TermValues] : k \in 0..MaxTerms}

SequenceOf(terms, index) ==
    [sequence_type |-> "recursive", terms |-> terms, target_index |-> index,
     target_property |-> "term"]

(* _handle_recursive on a SequenceProblem with the terms and target index
   given, on a solver whose cache is empty *)
CallHandleRecursive ==
    \E terms \in TermLists, index \in {None, Val(4)} :
        /\ call.fn = "none"
        /\ call' = [fn |-> "_handle_recursive", a |-> terms, b |-> index,
                    out |-> Run(EmptyCache,
                                seq_handle_recursive(SequenceOf(terms, index)))]
        /\ UNCHANGED <<parsed, built, solved, tried, stats, cache, last, predicted>>

MaxInv == 30

CallModInverse ==
    \E a \in 1..MaxInv, m \in (2..MaxInv) \cup {Modulus} :
        /\ call.fn = "none"
        /\ call' = [fn |-> "mod_inverse", a |-> a, b |-> m,
                    out |-> mod_inverse(a, m)]
        /\ UNCHANGED <<parsed, built, solved, tried, stats, cache, last, predicted>>

NextMath ==
    \/ CallMod1000
    \/ CallEnsureValidAnswer
    \/ CallFibonacciMod
    \/ CallGenerateFibonacci
    \/ CallFactorialMod
    \/ CallPatternFactorial
    \/ CallCombFactorial
    \/ CallBinomialMod
    \/ CallCombination
    \/ CallPermutation
    \/ CallHandlePartition
    \/ CallHandleRecursive
    \/ CallModInverse

SpecMath == InitMath /\ [][NextMath]_vars

-----------------------------------------------------------------------------
(* Calls of the parsing functions on bounded texts *)

ParseProblem ==
    /\ parsed.fn = "none"
    /\ \E text \in LatexTexts :
          parsed' = [fn |-> "parse_problem", input |-> text,
                     out |-> parse_problem(text)]
    /\ UNCHANGED <<call, solved, tried, stats, cache, last, predicted, built>>

ReturnFromParse ==
    /\ parsed.fn # "none"
    /\ parsed' = NoParsed
    /\ UNCHANGED <<call, solved, tried, stats, cache, last, predicted, built>>

(* preprocess, then CombinatoricsSolver._parse_combinatorics_problem *)
ParseCombinatorics ==
    /\ parsed.fn = "none"
    /\ \E text \in Questions :
          \E problem \in {preprocess(text)} :
              /\ problem.tag = "val"
              /\ parsed' = [fn |-> "parse_combinatorics_problem",
                            input |-> text,
                            out |-> parse_combinatorics_problem(problem)]
    /\ UNCHANGED <<call, solved, tried, stats, cache, last, predicted, built>>

NextParse ==
    \/ ParseProblem
    \/ ParseCombinatorics
    \/ ReturnFromParse

SpecParse == Init /\ [][NextParse]_vars

-----------------------------------------------------------------------------
(* Construction and initialization of the solvers *)
MaxInit == 2

Construct ==
    \E name \in Solvers :
        /\ built[name].state = "none"
        /\ built' = [built EXCEPT ![name] = construct(name)]
        /\ UNCHANGED <<parsed, call, solved, tried, stats, cache, last,
                       predicted>>

Initialize ==
    \E name \in Solvers :
        /\ built[name].state = "built"
        /\ built[name].calls < MaxInit
        /\ built' = [built EXCEPT ![name] = initialize(built[name])]
        /\ UNCHANGED <<parsed, call, solved, tried, stats, cache, last,
                       predicted>>

NextBuild ==
    \/ Construct
    \/ Initialize

SpecBuild == Init /\ [][NextBuild]_vars

-----------------------------------------------------------------------------
(* Properties of solve_problem and of the solvers' solve *)

Failed(path) == path \in {"sentinel", "except"}

(* C1: whatever the text (a string, the empty string, None, a text with a
   zero denominator) and whatever calls came before, solve_problem returns
   an integer between 0 and 999 and raises nothing. *)
C1_AnswerInRange ==
    last.called =>
        /\ last.answer.tag = "val"
        /\ ~last.answer.fl
        /\ last.answer.v \in 0..999

C1_Witness ==
    /\ last.called
    /\ stats.problems_processed >= 2
    /\ last.text = RemainderText
    /\ last.path = "heuristic"
    /\ last.answer = Val(0)

(* C2: for the empty string, for None and for a text on which the chosen
   solver produces no result, solve_problem returns exactly 42. *)
C2_SentinelOnFailure ==
    last.called /\ (last.text.null \/ last.text.toks = <<>> \/ Failed(last.path))
        => last.answer = Val(42)

C2_Witness ==
    /\ last.called
    /\ last.text = ZeroRemainderText
    /\ last.ptype = "number_theory"
    /\ last.path = "except"
    /\ last.answer = Val(42)

(* C3: the answer to a text is the answer a newly built solver gives to it,
   whatever the counters and the caches hold from earlier calls. *)
C3_HistoryIndependent ==
    last.called =>
        last.answer = solve_problem(InitStats, EmptyCache, last.text).answer

C3_Witness ==
    /\ last.called
    /\ last.hit
    /\ stats.problems_processed >= 2
    /\ last.text = ChooseText
    /\ last.answer = Val(1)

(* C4: when the chosen solver is not the pattern solver and fails, the text
   is tried once more with the pattern solver, and 42 is returned only if
   the pattern solver has no result either. *)
C4_PatternRetry ==
    last.called /\ last.ptype \notin {"pattern", "none"} /\ Failed(last.path)
        => /\ last.invoked = <<last.ptype, "pattern">>
           /\ (last.answer = Val(42)
                  => PatternSolve(last.text).path # "handler")

(* the keyword score of the i-th category on the text of the last call *)
ScoreOfLast(i) == TypeScore(last.text.toks, Categories[i])

(* C13: on every string the classifier returns one of the six solver names;
   it returns "pattern" when every category scores 0, and the category
   whose score is strictly above every other category's score. *)
C13_ClassifierContract ==
    last.called /\ ~last.text.null =>
        \A sc \in {<<ScoreOfLast(1), ScoreOfLast(2), ScoreOfLast(3),
                      ScoreOfLast(4), ScoreOfLast(5)>>} :
            /\ last.ptype \in Solvers
            /\ (\A i \in 1..5 : sc[i] = 0) => last.ptype = "pattern"
            /\ \A i \in 1..5 :
                  (\A j \in (1..5) \ {i} : sc[j] < sc[i])
                      => last.ptype = Categories[i]

C13_Witness ==
    /\ last.called
    /\ last.text = SumProductText
    /\ ScoreOfLast(2) = 1
    /\ ScoreOfLast(5) = 2
    /\ last.ptype = "arithmetic"

(* C14: when two or more categories share the highest score and that score
   is above 0, the classifier returns "pattern". *)
C14_TieGivesPattern ==
    (/\ last.called
     /\ ~last.text.null
     /\ \E i \in 1..5, j \in 1..5 :
            /\ i # j
            /\ ScoreOfLast(i) > 0
            /\ ScoreOfLast(i) = ScoreOfLast(j)
            /\ \A k \in 1..5 : ScoreOfLast(k) <= ScoreOfLast(i))
        => last.ptype = "pattern"

(* C5: solve of each solver raises nothing; a failure in preprocessing, in
   a handler or in the heuristic ends in the return value 42. *)
C5_SolveNeverRaises ==
    solved # NoSolve =>
        /\ solved.out.tag = "val"
        /\ (Failed(solved.path) => solved.out = Val(42))

C5_Witness ==
    /\ solved.solver = "number_theory"
    /\ solved.text = ZeroRemainderText
    /\ solved.path = "except"
    /\ solved.out = Val(42)

(* C6: every value solve returns, on the handler path, the heuristic path
   and the failure path, is an integer between 0 and 999. *)
C6_SolveInRange ==
    solved # NoSolve =>
        /\ solved.out.tag = "val"
        /\ ~solved.out.fl
        /\ solved.out.v \in 0..999

-----------------------------------------------------------------------------
(* Properties of the library functions, under SpecMath *)

InRange(v) == v \in 0..999

(* C7: the normalization step (mod_1000, _ensure_valid_answer) returns for a
   real result r = call.a / call.b exactly ((floor(r) % 1000) + 1000) % 1000. *)
C7_FloorNormalization ==
    call.fn \in {"mod_1000", "_ensure_valid_answer"} =>
        call.out = Val(((Floor(call.a, call.b) % 1000) + 1000) % 1000)

FibOf(fn, n) ==
    IF fn = "fibonacci_mod" THEN fibonacci_mod(n, Modulus)
    ELSE generate_fibonacci(n)

(* C8: fibonacci_mod with modulus 1000 and _generate_fibonacci return 0 for
   n = 0, 1 for n = 1, (fib(n-1) + fib(n-2)) % 1000 for n >= 2, and always a
   value in [0, 999]. *)
C8_FibRecurrence ==
    call.fn \in {"fibonacci_mod", "_generate_fibonacci"} =>
        /\ IsVal(call.out)
        /\ InRange(call.out.v)
        /\ call.a = 0 => call.out.v = 0
        /\ call.a = 1 => call.out.v = 1
        /\ call.a >= 2 =>
              call.out.v = (FibOf(call.fn, call.a - 1)
                            + FibOf(call.fn, call.a - 2)) % 1000

C8_Witness ==
    /\ call.fn = "fibonacci_mod"
    /\ call.a = 30
    /\ call.out = Val(40)

FactOf(fn, n) ==
    IF fn = "factorial_mod" THEN factorial_mod(n, Modulus)
    ELSE IF fn = "pattern._factorial_mod_1000" THEN pattern_factorial_mod_1000(n)
    ELSE comb_factorial_mod_1000(n)

FactFns ==
    {"factorial_mod", "pattern._factorial_mod_1000", "comb._factorial_mod_1000"}

(* C9: factorial_mod with modulus 1000 and the solvers' _factorial_mod_1000
   return 1 for n = 0 and (fact(n-1) * n) % 1000 for n >= 1, also for n
   above the modulus, where the loop is cut short. *)
C9_FactRecurrence ==
    call.fn \in FactFns =>
        /\ IsVal(call.out)
        /\ call.a = 0 => call.out.v = 1
        /\ call.a >= 1 =>
              call.out.v = (FactOf(call.fn, call.a - 1) * call.a) % 1000

C9_Witness ==
    /\ call.fn = "factorial_mod"
    /\ call.a > Modulus
    /\ call.out = Val(0)

CombOf(fn, n, r) ==
    IF fn = "binomial_mod" THEN Val(binomial_mod(n, r, Modulus))
    ELSE combination(n, r)

(* C10: for 0 <= r <= n, _combination and binomial_mod return a value, and
   it is the value returned for (n, n - r). *)
C10_CombSymmetry ==
    (call.fn \in {"binomial_mod", "_combination"} /\ call.b <= call.a) =>
        /\ IsVal(call.out)
        /\ call.out = CombOf(call.fn, call.a, call.a - call.b)

(* the binomial coefficient C(n, k), by Pascal's rule *)
RECURSIVE Binomial(_, _)
Binomial(n, k) ==
    IF k < 0 \/ k > n THEN 0
    ELSE IF k = 0 \/ k = n THEN 1
    ELSE Binomial(n - 1, k - 1) + Binomial(n - 1, k)

(* C11: for 0 <= k <= n, binomial_mod(n, k) and _combination(n, k) return
   the binomial coefficient C(n, k) modulo 1000. *)
C11_ExactBinomial ==
    (call.fn \in {"binomial_mod", "_combination"} /\ call.b <= call.a) =>
        call.out = Val(Binomial(call.a, call.b) % 1000)

(* C12: for non-negative n and r with r > n, _permutation, _combination and
   binomial_mod return 0 and raise nothing. *)
C12_SelectAboveTotal ==
    (call.fn \in {"_permutation", "_combination", "binomial_mod"}
        /\ call.b > call.a) => call.out = Val(0)

C12_Witness ==
    /\ call.fn = "_combination"
    /\ call.a = 3
    /\ call.b = 5
    /\ call.out = Val(0)

-----------------------------------------------------------------------------
(* Properties of the pattern solver *)

(* the place of a match in the list _find_patterns returned *)
FoundAt(m) == CHOOSE i \in 1..Len(tried.found) : tried.found[i] = m

SameKey(a, b) ==
    /\ Priority(a.pattern_type) = Priority(b.pattern_type)
    /\ a.confidence = b.confidence

Before(a, b) ==
    \/ Priority(a.pattern_type) > Priority(b.pattern_type)
    \/ /\ Priority(a.pattern_type) = Priority(b.pattern_type)
       /\ a.confidence > b.confidence

(* the matches, in the order tried, whose handler returns a result *)
Answering ==
    {i \in 1..Len(tried.order) :
        Caught(PatternHandler(preprocess(solved.text), tried.order[i])) # None}

(* C15: PatternBasedSolver.solve tries the matches in descending order of
   (priority, confidence); matches of equal priority and confidence are
   tried in the order _find_patterns found them; the answer is that of the
   first match in this order whose handler returns a result. *)
C15_TriedInOrder ==
    solved.solver = "pattern" =>
        /\ Len(tried.order) = Len(tried.found)
        /\ \A i \in 1..Len(tried.found) :
              \E j \in 1..Len(tried.order) : tried.order[j] = tried.found[i]
        /\ \A i, j \in 1..Len(tried.order) :
              i < j =>
                \/ Before(tried.order[i], tried.order[j])
                \/ /\ SameKey(tried.order[i], tried.order[j])
                   /\ FoundAt(tried.order[i]) < FoundAt(tried.order[j])
        /\ Answering # {} =>
              LET first == CHOOSE i \in Answering :
                               \A j \in Answering : i <= j
              IN  solved.out =
                    Val(ensure_valid_answer(
                        PatternHandler(preprocess(solved.text),
                                       tried.order[first]).v, 1))

C15_Witness ==
    /\ solved.solver = "pattern"
    /\ solved.text = TwoFactorialText
    /\ Len(tried.order) = 2
    /\ SameKey(tried.order[1], tried.order[2])
    /\ tried.order[1].value = 5
    /\ solved.out = Val(120)

(* 1 when the condition holds, else 0 *)
Bracket(b) == IF b THEN 1 ELSE 0

(* the confidence, in tenths, that the formula of the claim gives the match
   m of the text solved *)
ClaimedConfidence(m) ==
    LET problem == preprocess(solved.text)
    IN  Min(10,
            5 + 2 * Bracket(HasAny(solved.text.toks,
                                   PatternTypeIndicators(m.pattern_type)))
              + 2 * Bracket(MatchInExpression(problem, m.pattern_type, m.at))
              + 1 * Bracket(base_identify_problem_type(solved.text.toks)
                              = m.pattern_type))

(* C16: the confidence of every pattern match is min(1.0, 0.5 + 0.2 [the
   keywords of the pattern's category occur in the text] + 0.2 [the matched
   literal occurs inside a math expression] + 0.1 [the problem type of the
   text is the pattern's category]), and so lies between 0.5 and 1.0
   (confidences are counted in tenths). *)
C16_ConfidenceFormula ==
    solved.solver = "pattern" =>
        \A i \in 1..Len(tried.found) :
            /\ tried.found[i].confidence = ClaimedConfidence(tried.found[i])
            /\ tried.found[i].confidence \in 5..10

C16_Witness ==
    /\ solved.solver = "pattern"
    /\ solved.text = FullConfidenceText
    /\ Len(tried.found) = 1
    /\ tried.found[1].pattern_type = "sequence"
    /\ tried.found[1].confidence = 10

(* a word that is no keyword of the pattern solver *)
PlainWord(tok) == tok.k = "word" /\ tok.w \in {"find", "what", "is", "calculate"}

(* "... X modulo M ...": the literals X and M > 0 around the word "modulo",
   inside or outside math mode, among plain words *)
ModuloFormAt(toks, i) ==
    /\ i + 2 <= Len(toks)
    /\ toks[i].k = "num"
    /\ toks[i + 1] = WordTok("modulo")
    /\ toks[i + 2].k = "num"
    /\ toks[i + 2].n > 0
    /\ \A j \in 1..Len(toks) : j \notin {i, i + 1, i + 2} => PlainWord(toks[j])

(* C17: on a text of the form "... X modulo M ..." with integer literals X
   and M > 0, with or without $ around the numbers,
   PatternBasedSolver.solve returns X mod M. *)
C17_ModuloOfLiterals ==
    (solved.solver = "pattern" /\ ~solved.text.null) =>
        \A i \in 1..Len(solved.text.toks) :
            ModuloFormAt(solved.text.toks, i) =>
                solved.out = Val(solved.text.toks[i].n
                                   % solved.text.toks[i + 2].n)

RECURSIVE FactorialMod1000(_)
FactorialMod1000(n) ==
    IF n = 0 THEN 1 ELSE (n * FactorialMod1000(n - 1)) % 1000

(* the only matches are one factorial and, possibly, modulo clauses *)
FactorialOnly ==
    /\ Cardinality({i \in 1..Len(tried.found) :
                        tried.found[i].pattern_type = "factorial"}) = 1
    /\ \A i \in 1..Len(tried.found) :
          tried.found[i].pattern_type \in {"factorial", "modulo"}

(* C18: on a text whose only pattern matches are a factorial "n!" and
   possibly a "modulo M" clause, PatternBasedSolver.solve tries the
   factorial handler first and returns n! mod 1000. *)
C18_FactorialFirst ==
    (solved.solver = "pattern" /\ FactorialOnly) =>
        /\ tried.order[1].pattern_type = "factorial"
        /\ solved.out = Val(FactorialMod1000(tried.order[1].value))

C18_Witness ==
    /\ solved.solver = "pattern"
    /\ solved.text = FactorialModuloText
    /\ Len(tried.order) = 2
    /\ tried.order[2].pattern_type = "modulo"
    /\ solved.out = Val(40)

-----------------------------------------------------------------------------
(* Properties of the geometry solver *)

(* the integer part of Heron's area of the triangle with sides a, b, c *)
HeronArea(a, b, c) ==
    Isqrt((a + b + c) * (b + c - a) * (a + c - b) * (a + b - c)) \div 4

(* the text names a triangle, gives three side lengths that make a
   triangle, and asks for the area *)
HeronForm(toks) ==
    /\ Has(toks, "triangle")
    /\ \E i \in 1..Len(toks) : toks[i].k = "label"
    /\ Has(toks, "area")
    /\ Len(RegularNumbers(toks)) = 3
    /\ LET n == RegularNumbers(toks)
       IN  n[1] < n[2] + n[3] /\ n[2] < n[1] + n[3] /\ n[3] < n[1] + n[2]

(* C19: on a text that names a triangle, gives its three side lengths and
   asks for its area, GeometrySolver.solve returns Heron's area normalized
   to 0..999; "Triangle ABC has sides of length 3, 4, and 5. Find its
   area." yields 6. *)
C19_HeronArea ==
    (solved.solver = "geometry" /\ ~solved.text.null
        /\ HeronForm(solved.text.toks)) =>
        LET n == RegularNumbers(solved.text.toks)
        IN  solved.out = Val(HeronArea(n[1], n[2], n[3]) % 1000)

-----------------------------------------------------------------------------
(* Properties of predict *)

(* C20: predict returns a record whose id is the id it was given and whose
   answer is an integer between 0 and 999, equal to the value of
   solve_problem on the text clamped to 0..999. *)
C20_PredictRecord ==
    predicted.called =>
        /\ predicted.returned.id = predicted.id
        /\ predicted.returned.answer.tag = "val"
        /\ ~predicted.returned.answer.fl
        /\ predicted.returned.answer.v \in 0..999
        /\ last.called
        /\ last.answer.tag = "val"
        /\ predicted.returned.answer.v = Max(0, Min(999, last.answer.v))

C20_Witness ==
    /\ predicted.called
    /\ predicted.id = "1fce4b"
    /\ stats.problems_processed >= 2
    /\ last.text = FactorialText
    /\ predicted.returned = [id |-> "1fce4b", answer |-> Val(120)]

-----------------------------------------------------------------------------
(* Properties of the parser *)

(* the spans of the text parsed, inline ones first *)
SpansOfParsed ==
    find_inline_math(parsed.input.ps, 1) \o find_display_math(parsed.input.ps)

Parsable(span) == \A i \in 1..Len(span.expr) : span.expr[i].k # "symfrac"

(* C21: parse_problem raises nothing and returns a list, on None, on the
   empty text, on unmatched delimiters and on empty math mode; a span that
   cannot be parsed is left out alone, and every other span of the text is
   returned, in order. *)
C21_ParseNeverRaises ==
    parsed.fn = "parse_problem" =>
        /\ parsed.out.tag = "val"
        /\ parsed.input.null => parsed.out.v = <<>>
        /\ ~parsed.input.null =>
              LET kept == SelectSeq(SpansOfParsed, Parsable)
              IN  /\ Len(parsed.out.v) = Len(kept)
                  /\ \A i \in 1..Len(kept) :
                        /\ parsed.out.v[i].raw_text = kept[i].expr
                        /\ parsed.out.v[i].math_mode = kept[i].mode

C21_Witness ==
    /\ parsed.fn = "parse_problem"
    /\ parsed.input = TwoSpansLatex
    /\ Len(SpansOfParsed) = 2
    /\ ~Parsable(SpansOfParsed[1])
    /\ Len(parsed.out.v) = 1
    /\ parsed.out.v[1].raw_text = <<Piece("num", 3, 0)>>

InSeq(x, sq) == \E i \in 1..Len(sq) : sq[i] = x

(* the returned expression of a span *)
ReturnedFor(span) ==
    {j \in 1..Len(parsed.out.v) :
        /\ parsed.out.v[j].raw_text = span.expr
        /\ parsed.out.v[j].math_mode = span.mode}

(* C22: a span whose fractions are numeric is returned with a number list
   that holds a and b of every \frac{a}{b} and every other literal of the
   span, and that holds the quotient a/b exactly when b is not 0: a zero
   denominator raises nothing and costs the span only that quotient. *)
C22_FractionNumbers ==
    (parsed.fn = "parse_problem" /\ ~parsed.input.null) =>
        \A i \in 1..Len(SpansOfParsed) :
            Parsable(SpansOfParsed[i]) =>
                /\ ReturnedFor(SpansOfParsed[i]) # {}
                /\ \A j \in ReturnedFor(SpansOfParsed[i]) :
                    \A k \in 1..Len(SpansOfParsed[i].expr) :
                        LET p == SpansOfParsed[i].expr[k]
                            numbers == parsed.out.v[j].numbers
                        IN  /\ p.k = "num" => InSeq(<<p.a, 1>>, numbers)
                            /\ p.k = "frac" =>
                                  /\ InSeq(<<p.a, 1>>, numbers)
                                  /\ InSeq(<<p.b, 1>>, numbers)
                                  /\ InSeq(<<p.a, p.b>>, numbers) <=> p.b # 0

C22_Witness ==
    /\ parsed.fn = "parse_problem"
    /\ parsed.input = ZeroFractionLatex
    /\ Len(parsed.out.v) = 1
    /\ parsed.out.v[1].numbers =
          <<<<3, 1>>, <<1, 1>>, <<0, 1>>, <<3, 1>>, <<4, 1>>, <<3, 4>>>>

-----------------------------------------------------------------------------
(* Properties of construction *)

(* C23: constructing any of the solvers succeeds, with is_initialized
   false and a pattern table; initialize() makes is_initialized true and
   later calls leave it true. *)
C23_ConstructionSucceeds ==
    \A name \in Solvers :
        built[name].state # "none" =>
            /\ built[name].state = "built"
            /\ built[name].patterns
            /\ built[name].is_initialized <=> built[name].calls > 0

-----------------------------------------------------------------------------
(* Properties of the solvers' parsing and handlers *)

(* the integer literals of the text parsed, in ascending order *)
IntegerLiterals == Sorted(RegularNumbers(parsed.input.toks))

C24_TwoLargest ==
    parsed.fn = "parse_combinatorics_problem" =>
        LET n == Len(IntegerLiterals)
        IN  /\ n >= 1 => parsed.out.total_elements = IntegerLiterals[n]
            /\ n >= 2 =>
                  /\ parsed.out.select_elements = Val(IntegerLiterals[n - 1])
                  /\ parsed.out.select_elements.v
                        <= parsed.out.total_elements

C24_NonNegative ==
    parsed.fn = "parse_combinatorics_problem" =>
        /\ parsed.out.total_elements >= 0
        /\ parsed.out.select_elements # None =>
              parsed.out.select_elements.v >= 0

(* C24: total_elements is the largest integer literal of the text,
   select_elements, when the text has two or more, the second-largest, so
   select_elements <= total_elements; and both are non-negative. *)
C24_TotalAndSelect == C24_TwoLargest /\ C24_NonNegative

(* the number of partitions of n into parts of size at most k *)
RECURSIVE PartitionsUpTo(_, _)
PartitionsUpTo(n, k) ==
    IF n = 0 THEN 1
    ELSE IF n < 0 \/ k = 0 THEN 0
    ELSE PartitionsUpTo(n, k - 1) + PartitionsUpTo(n - k, k)

(* C25: for n >= 0 _handle_partition returns the number of partitions of n
   modulo 1000, with p(0) = 1, a value between 0 and 999; for n < 0 it
   returns 0. *)
C25_PartitionNumber ==
    call.fn = "_handle_partition" =>
        /\ call.a < 0 => call.out = Val(0)
        /\ call.a >= 0 =>
              /\ call.out = Val(PartitionsUpTo(call.a, call.a) % 1000)
              /\ call.out.v \in 0..999

C25_Witness ==
    /\ call.fn = "_handle_partition"
    /\ call.a = 22
    /\ PartitionsUpTo(22, 22) = 1002
    /\ call.out = Val(2)

(* the three tests, as the terms themselves show them *)
EqualDifferences(terms) ==
    \A i \in 1..Len(terms) :
        terms[i] = terms[1] + (i - 1) * (terms[2] - terms[1])

(* equal ratios terms[i] / terms[i-1]; a ratio with denominator 0 is not
   formed *)
EqualRatios(terms) ==
    \A i, j \in 2..Len(terms) :
        (terms[i - 1] # 0 /\ terms[j - 1] # 0) =>
            terms[i] * terms[j - 1] = terms[j] * terms[i - 1]

FibonacciCongruent(terms) ==
    \A i \in 3..Len(terms) :
        /\ terms[i] \in 0..999
        /\ (terms[i - 1] + terms[i - 2] - terms[i]) % 1000 = 0

(* C26: with three terms or more, _handle_recursive tests for equal
   differences, then for equal ratios, then for the Fibonacci congruence
   modulo 1000, and returns what the handler of the first test that passes
   returns; with fewer than three terms, or when no test passes, it
   returns None. *)
C26_RecursiveOrder ==
    call.fn = "_handle_recursive" =>
        LET sp == SequenceOf(call.a, call.b)
        IN  IF Len(call.a) < 3 THEN call.out = None
            ELSE IF EqualDifferences(call.a)
            THEN call.out = seq_handle_arithmetic(sp)
            ELSE IF EqualRatios(call.a)
            THEN call.out = seq_handle_geometric(sp)
            ELSE IF FibonacciCongruent(call.a)
            THEN call.out = Run(EmptyCache, seq_handle_fibonacci(sp))
            ELSE call.out = None

(* 0, 3, 6 passes the first two tests: the arithmetic handler answers 9,
   the geometric one would answer 12 *)
C26_Witness ==
    /\ call.fn = "_handle_recursive"
    /\ call.a = <<0, 3, 6>>
    /\ call.b = None
    /\ EqualDifferences(call.a)
    /\ EqualRatios(call.a)
    /\ seq_handle_geometric(SequenceOf(call.a, call.b)) = Val(12)
    /\ call.out = Val(9)

-----------------------------------------------------------------------------
(* Properties of the pattern solver's fallbacks *)

(* C27: when no handler of a matched pattern returns a result, solve goes
   on to the type-specific handler and then to the basic numerical
   analysis: on a text with a numeric literal the answer is the first of
   max, min, sum, product that lies in 0..999, else max mod 1000, and the
   sentinel 42 of a failure is returned only when the text has no numeric
   literal. *)
C27_NumericFallback ==
    (solved.solver = "pattern" /\ ~solved.text.null
        /\ preprocess(solved.text).tag = "val" /\ Answering = {}) =>
        LET problem == preprocess(solved.text)
        IN  problem.numbers # <<>> =>
                /\ ~Failed(solved.path)
                /\ solved.out = basic_numerical_analysis(problem)

(* the matches tried before the first one whose handler returns a result *)
TriedInVain ==
    {i \in 1..Len(tried.order) : \A j \in Answering : i < j}

(* C28: in the loop of solve a handler that raises a numeric error or
   returns None ends nothing: the next match in order is tried, and the
   answer is the normalized result of the first handler, in order, that
   returns a result. *)
C28_FailedHandlerSkipped ==
    (solved.solver = "pattern" /\ Answering # {} /\ TriedInVain # {}) =>
        /\ solved.path = "handler"
        /\ \E first \in Answering :
              /\ \A i \in 1..(first - 1) : i \in TriedInVain
              /\ solved.out =
                    Val(ensure_valid_answer(
                        PatternHandler(preprocess(solved.text),
                                       tried.order[first]).v, 1))

C28_Witness ==
    /\ solved.solver = "pattern"
    /\ solved.text = ZeroModuloText
    /\ Len(tried.order) = 2
    /\ tried.order[1].value = 0
    /\ TriedInVain = {1}
    /\ Answering = {2}
    /\ solved.path = "handler"
    /\ solved.out = Val(5)

-----------------------------------------------------------------------------
(* Properties of the statistics *)

UsageTotal(st) ==
    st.solver_usage["pattern"] + st.solver_usage["geometry"]
    + st.solver_usage["number_theory"] + st.solver_usage["sequence"]
    + st.solver_usage["combinatorics"] + st.solver_usage["arithmetic"]

(* C29: every call of solve_problem adds exactly 1 to problems_processed,
   also when it ends in the sentinel, and nothing else changes it, so it
   equals the number of calls made; a call adds 1 to at most one entry of
   solver_usage; and after every step
   successful_solves <= sum of solver_usage <= problems_processed. *)
C29_StatsCount ==
    [][/\ stats'.problems_processed =
              stats.problems_processed
              + (IF last'.called /\ ~last.called THEN 1 ELSE 0)
       /\ \A name \in Solvers :
              stats'.solver_usage[name] - stats.solver_usage[name] \in {0, 1}
       /\ Cardinality({name \in Solvers :
              stats'.solver_usage[name] # stats.solver_usage[name]}) <= 1
       /\ ~(last'.called /\ ~last.called) =>
              stats'.solver_usage = stats.solver_usage
       /\ stats'.successful_solves <= UsageTotal(stats')
       /\ UsageTotal(stats') <= stats'.problems_processed]_vars

(* a call that succeeded, then a call on None that ended in the sentinel *)
C29_Witness ==
    /\ last.called
    /\ last.text = NullText
    /\ last.answer = Val(42)
    /\ stats.problems_processed = 2
    /\ UsageTotal(stats) = 1
    /\ stats.successful_solves = 1

-----------------------------------------------------------------------------
(* Properties of mod_inverse *)

Divides(d, n) == n % d = 0

(* the greatest common divisor, by its definition *)
GreatestCommonDivisor(a, m) ==
    CHOOSE d \in 1..a :
        /\ Divides(d, a) /\ Divides(d, m)
        /\ \A e \in (d + 1)..a : ~(Divides(e, a) /\ Divides(e, m))

(* C30: for a >= 1 and m >= 2, mod_inverse(a, m) is None exactly when
   gcd(a, m) is not 1; otherwise it is the one x in 0..m-1 with
   (a * x) % m = 1. *)
C30_ModInverse ==
    call.fn = "mod_inverse" =>
        /\ call.out = None <=> GreatestCommonDivisor(call.a, call.b) # 1
        /\ call.out # None =>
              /\ call.out.tag = "val"
              /\ \A x \in 0..(call.b - 1) :
                    (call.a * x) % call.b = 1 <=> x = call.out.v

C30_Witness ==
    /\ call.fn = "mod_inverse"
    /\ call.a = 3
    /\ call.b = 7
    /\ extended_gcd(3, 7)[2] < 0
    /\ call.out = Val(5)

====
